---- MODULE Spec2Model ----
(***************************************************************************)
(* The native event-loop controller of the desktop shell (WinitApp in      *)
(* desktop/src/app.rs), the compute worker thread it spawns, and the       *)
(* event loop, clock and browser engine it talks to.                       *)
(*                                                                         *)
(* Every handler of the controller is one action.  What a handler is given *)
(* from outside (the event, the clock, the answers of the desktop wrapper, *)
(* the outcome of a render or of a file read) is a parameter of the        *)
(* action; the specifications at the end differ only in which of these the *)
(* environment supplies.                                                   *)
(*                                                                         *)
(* Two more parts of the shell have their own variables and their own      *)
(* specifications: the window chrome of the Windows build (mod             *)
(* hybrid_chrome in app.rs: install, uninstall and the two window          *)
(* procedures), and the host-to-script channel of the render process       *)
(* (cef/internal/render_process_handler.rs and the V8 handler's            *)
(* readMessageData).                                                       *)
(***************************************************************************)
EXTENDS Integers, Sequences, FiniteSets, TLC

\* ------------------------------------------------------------- bounds
\* The clock runs from 0 to MaxTime (milliseconds since construction).
MaxTime == 3
\* Custom events waiting in the event loop's queue.
MaxQueue == 2
\* Serialized frontend messages handed to send_or_queue_web_message.
MaxMsgs == 3
\* Frontend messages the desktop wrapper answers one dispatch with.
MaxResponses == 2
\* Milliseconds that may pass between two clock reads of one handler.
MaxDrift == 1
\* Screen coordinates of an owner window's top-left corner: -MaxOrigin..MaxOrigin.
MaxOrigin == 1
\* Width and height of an owner window: 0..MaxExtent.
MaxExtent == 1
\* Payloads the browser process delivers to the render process.
MaxPayloads == 3
\* Script contexts (callers of readMessageData) of one render process.
MaxReaders == 2
\* Pixels of a window's inner size and of a reported viewport: 0..MaxSize.
MaxSize == 2
\* UiUpdate events whose frame time is followed.
MaxUpdates == 3
\* Quarter seconds the frame clock runs for.
MaxQuarters == 4
\* Documents the persistent data holds, and the editor has open.
MaxDocs == 5

\* ---------------------------------------------------- program constants
\* Duration::from_millis(10) in about_to_wait.
TIMEOUT_MILLIS == 10
\* crate::consts::CEF_MESSAGE_LOOP_MAX_ITERATIONS (its definition is not
\* among the source files; the handler only needs it to be a fixed count).
CEF_MESSAGE_LOOP_MAX_ITERATIONS == 10
\* std::sync::mpsc::sync_channel(1)
START_RENDER_CAPACITY == 1
\* hybrid_chrome::RESIZE_BAND_THICKNESS
RESIZE_BAND_THICKNESS == 8
\* hybrid_chrome::install(&window, 36) in resumed
CAPTION_HEIGHT_PX == 36
\* frame_x and frame_y of the owner's hit test
FRAME == 4

\* ------------------------------------------------------------- values
\* Option<T>: None is the empty sequence, Some(x) the one-element sequence.
None == <<>>
Some(x) == <<x>>

Min(a, b) == IF a <= b THEN a ELSE b

\* Option::unwrap_or
UnwrapOr(opt, default) == IF opt = None THEN default ELSE opt[1]

\* An event: a CustomEvent or a WindowEvent, with the payload the model reads.
Ev(type, arg, instant) == [type |-> type, arg |-> arg, instant |-> instant]
NoEvent == Ev("none", "", 0)

\* Instants a ScheduleBrowserWork request may carry.
MaxInstant == MaxTime + TIMEOUT_MILLIS + 1

\* NodeGraphExecutionResult: HasRun(Some(texture)), HasRun(None), NotRun.
ExecutionResults == {"HasRunTexture", "HasRunNone", "NotRun"}

\* Result<SurfaceTexture, wgpu::SurfaceError> of GraphicsState::render.
RenderOutcomes == {"Ok", "Lost", "OutOfMemory", "Other"}

\* WindowEvent variants the controller tells apart; "Other" is any other.
WindowEventTypes == {"CloseRequested", "Resized", "RedrawRequested", "DroppedFile", "Other"}

Count(s, x) == Cardinality({i \in 1..Len(s) : s[i] = x})

Repeat(x, n) == [i \in 1..n |-> x]

\* All sequences over S of length at most n.
SeqsUpTo(S, n) == UNION {[1..k -> S] : k \in 0..n}

VARIABLES
    \* ---- WinitApp fields
    window,                             \* Option<Arc<Window>> is Some
    graphics_state,                     \* Option<GraphicsState> is Some
    cef_schedule,                       \* Option<Instant>
    web_communication_initialized,
    web_communication_startup_buffer,
    \* ---- the event loop and the channels
    now,                                \* Instant::now()
    control_flow,                       \* Option: ControlFlow::WaitUntil(t)
    event_queue,                        \* CustomEvents sent through the proxy
    exited,                             \* event_loop.exit() was called
    redraw_requested,                   \* window.request_redraw() pending
    start_render,                       \* tokens in sync_channel(1)
    \* ---- the compute worker thread
    worker_pc,
    worker_result,
    \* ---- what the last step did
    handler,                            \* the handler (or thread step) that ran
    event,                              \* the event it was given
    calls,                              \* the calls it made, in order
    cef_window_event,                   \* event last given to handle_window_event
    entry_time,                         \* the clock when it was entered
    entry_schedule,                     \* cef_schedule when it was entered
    entry_tokens,                       \* tokens in the channel when it was entered
    \* ---- what the browser context has seen
    web_sent,                           \* messages given to send_web_message
    enqueued,                           \* messages given to send_or_queue so far
    flushed,                            \* messages sent from the startup buffer
    \* ---- hybrid_chrome and the windows it works on (by owner HWND)
    chrome,                             \* the HybridChromeHandle: "none", "held", "dropped"
    owner_exists,                       \* the owner window exists
    owner_rect,                         \* GetWindowRect of the owner
    owner_wndproc,                      \* GWLP_WNDPROC of the owner
    state_map,                          \* STATE: Option<State> per owner HWND
    helper,                             \* the helper window: None, or Some of visible and rect
    destroy_calls,                      \* DestroyWindow calls made on the helper's HWND
    uninstall,                          \* the uninstall_impl in progress, if any
    win_message,                        \* the message last given to a window procedure
    forward,                            \* the call it passed the message on with, if any
    lresult,                            \* the LRESULT it answered itself, if any
    \* ---- the render process's host-to-script channel
    channel,                            \* payloads sent and not yet received
    delivered,                          \* payloads sent so far (payload k is the k-th)
    receiver_lock,                      \* the reader holding the receiver's mutex
    reader_pc,                          \* where each readMessageData call stands
    returned,                           \* <<reader, payload>> of the calls that returned
    process_message,                    \* the message last given to on_process_message_received
    ret,                                \* what the last bridge callback returned
    \* ---- the script-bridge functions of the V8 handlers
    v8_call,                            \* what the last sendMessageToCef or readMessageData was given
    disconnected,                       \* the channel's sender has been dropped
    panicked,                           \* a bridge function has panicked
    \* ---- the viewport of the graphics state
    viewport_bounds,                    \* the UpdateViewportBounds last handled, with the inner size
    viewport_offset,                    \* last argument of set_viewport_offset
    viewport_scale,                     \* last argument of set_viewport_scale
    \* ---- the frame-time statistics of WinitApp
    last_ui_update,                     \* self.last_ui_update (milliseconds since construction)
    avg_frame_time,                     \* self.avg_frame_time (milliseconds, a fraction)
    ui_updates,                         \* UiUpdate events handled with a graphics state
    \* ---- the persisted documents and the editor they are loaded into
    persistent_data,                    \* self.persistent_data: document order and current id
    frontend_message,                   \* the Persistence* frontend message last handled, if any
    dispatched,                         \* the wrapper messages it dispatched, in order
    documents                           \* the editor's open documents, in order

appVars == <<window, graphics_state, cef_schedule, web_communication_initialized,
             web_communication_startup_buffer>>
loopVars == <<now, control_flow, event_queue, exited, redraw_requested, start_render>>
workerVars == <<worker_pc, worker_result>>
stepVars == <<handler, event, calls, cef_window_event, entry_time, entry_schedule,
              entry_tokens>>
webVars == <<web_sent, enqueued, flushed>>
chromeVars == <<chrome, owner_exists, owner_rect, owner_wndproc, state_map, helper,
               destroy_calls, uninstall, win_message, forward, lresult>>
bridgeVars == <<channel, delivered, receiver_lock, reader_pc, returned, process_message, ret>>
v8Vars == <<v8_call, disconnected, panicked>>
viewVars == <<viewport_bounds, viewport_offset, viewport_scale>>
frameVars == <<last_ui_update, avg_frame_time, ui_updates>>
persistVars == <<persistent_data, frontend_message, dispatched, documents>>
otherVars == <<viewVars, frameVars, persistVars>>
vars == <<appVars, loopVars, workerVars, stepVars, webVars, chromeVars, bridgeVars, v8Vars,
          otherVars>>

\* HWNDs of the owner windows the chrome may be installed on.
Owners == {"hwnd_a", "hwnd_b"}

\* A RECT, and the RECT of a window at (x, y) of width w and height h.
RectAt(x, y, w, h) == [left |-> x, top |-> y, right |-> x + w, bottom |-> y + h]
NoMessage == [hwnd |-> "", msg |-> "", wparam |-> 0, lparam |-> 0, point |-> <<0, 0>>]

\* Before resumed: no owner window, STATE empty, no helper.
ChromeInit ==
    /\ chrome = [h \in Owners |-> "none"]
    /\ owner_exists = [h \in Owners |-> FALSE]
    /\ owner_rect = [h \in Owners |-> RectAt(0, 0, 0, 0)]
    /\ owner_wndproc = [h \in Owners |-> "null"]
    /\ state_map = [h \in Owners |-> None]
    /\ helper = [h \in Owners |-> None]
    /\ destroy_calls = [h \in Owners |-> 0]
    /\ uninstall = None
    /\ win_message = NoMessage
    /\ forward = None
    /\ lresult = None

\* The script contexts of the render process.
Readers == 1..MaxReaders

\* RenderProcessHandlerImpl::new: the channel empty, nobody reading.
BridgeInit ==
    /\ channel = <<>>
    /\ delivered = 0
    /\ receiver_lock = None
    /\ reader_pc = [r \in Readers |-> "idle"]
    /\ returned = <<>>
    /\ process_message = None
    /\ ret = None
    /\ v8_call = None
    /\ disconnected = FALSE
    /\ panicked = FALSE
    /\ viewport_bounds = None
    /\ viewport_offset = None
    /\ viewport_scale = None
    /\ last_ui_update = 0
    /\ avg_frame_time = [kind |-> "finite", num |-> 0, den |-> 1]
    /\ ui_updates = 0

\* WinitApp::new: the fields as constructed, the worker thread just spawned
\* and evaluating, the channel empty.
\* PersistentData::default() before anything was written.
NothingPersisted == [order |-> <<>>, current |-> None]

\* WinitApp::new with data as what persistent_data.load_from_disk() found.
InitWith(data) ==
    /\ persistent_data = data
    /\ frontend_message = None
    /\ dispatched = <<>>
    /\ documents = <<>>
    /\ window = FALSE
    /\ graphics_state = FALSE
    /\ now = 0
    /\ cef_schedule = Some(0)
    /\ web_communication_initialized = FALSE
    /\ web_communication_startup_buffer = <<>>
    /\ control_flow = None
    /\ event_queue = <<>>
    /\ exited = FALSE
    /\ redraw_requested = FALSE
    /\ start_render = 0
    /\ worker_pc = "execute"
    /\ worker_result = "NotRun"
    /\ handler = "new"
    /\ event = NoEvent
    /\ calls = <<>>
    /\ cef_window_event = NoEvent
    /\ entry_time = 0
    /\ entry_schedule = None
    /\ entry_tokens = 0
    /\ web_sent = <<>>
    /\ enqueued = 0
    /\ flushed = 0
    /\ ChromeInit
    /\ BridgeInit

\* The first start: nothing is on disk.
Init == InitWith(NothingPersisted)

\* What every step records of the state it started from.
Recorded(name, ev) ==
    /\ handler' = name
    /\ event' = ev
    /\ entry_time' = now
    /\ entry_schedule' = cef_schedule
    /\ entry_tokens' = start_render

\* A step of the controller or of the compute worker: the window chrome and
\* the render process are other code, which it does not touch. The viewport
\* and the frame-time statistics are followed by the handlers of their own
\* specifications (OnUpdateViewportBounds, OnTimedUiUpdate).
Enter(name, ev) ==
    /\ Recorded(name, ev)
    /\ UNCHANGED <<chromeVars, bridgeVars, v8Vars, otherVars>>

\* ------------------------------------------------------ about_to_wait
\* A wait_until that forgets the pending deadline.
WaitUntil_IgnoresSchedule(t, schedule) == t + TIMEOUT_MILLIS

\* wait_until: the earlier of the 10 ms ceiling and the pending deadline.
WaitUntil(t, schedule) ==
    LET timeout == t + TIMEOUT_MILLIS
    IN  Min(timeout, UnwrapOr(schedule, timeout))

\* if let Some(schedule) = self.cef_schedule && schedule < Instant::now()
ScheduleElapsed(schedule, t) == schedule # None /\ schedule[1] < t

\* A single pump instead of the burst.
WorkBurst_Single == <<"work">>

\* The burst: cef_context.work() CEF_MESSAGE_LOOP_MAX_ITERATIONS times.
WorkBurst == Repeat("work", CEF_MESSAGE_LOOP_MAX_ITERATIONS)

\* about_to_wait; d is the time between its two Instant::now() reads.
AboutToWait(d) ==
    /\ ~exited
    /\ now + d <= MaxTime
    /\ Enter("about_to_wait", NoEvent)
    /\ now' = now + d
    /\ control_flow' = Some(WaitUntil(now, cef_schedule))
    /\ cef_schedule' = IF ScheduleElapsed(cef_schedule, now + d) THEN None ELSE cef_schedule
    /\ redraw_requested' = (redraw_requested \/ window)
    /\ calls' = (IF ScheduleElapsed(cef_schedule, now + d) THEN WorkBurst ELSE <<>>)
                \o (IF window THEN <<"request_redraw">> ELSE <<>>)
                \o <<"set_control_flow">>
    /\ cef_window_event' = cef_window_event
    /\ UNCHANGED <<window, graphics_state, web_communication_initialized,
                   web_communication_startup_buffer, event_queue, exited, start_render>>
    /\ UNCHANGED <<workerVars, webVars>>

\* Time passes between two handlers.
Tick ==
    /\ now < MaxTime
    /\ now' = now + 1
    /\ Enter("tick", NoEvent)
    /\ calls' = <<>>
    /\ cef_window_event' = cef_window_event
    /\ UNCHANGED <<appVars, control_flow, event_queue, exited, redraw_requested, start_render>>
    /\ UNCHANGED <<workerVars, webVars>>

\* ------------------------------------------- frontend message handling
\* The part of the controller a dispatch changes: the startup buffer, what
\* the browser context was sent, the event queue, the calls made.
Start(queue, made) ==
    [buf |-> web_communication_startup_buffer, sent |-> web_sent,
     enq |-> enqueued, flushed |-> flushed, queue |-> queue, calls |-> made]

Commit(s) ==
    /\ web_communication_startup_buffer' = s.buf
    /\ web_sent' = s.sent
    /\ enqueued' = s.enq
    /\ flushed' = s.flushed
    /\ event_queue' = s.queue
    /\ calls' = s.calls

\* The bounds of the model: messages enqueued, events queued.
Bounded(s) == s.enq <= MaxMsgs /\ Len(s.queue) <= MaxQueue

\* A send_or_queue_web_message that buffers whatever the flag says.
SendOrQueueWebMessage_AlwaysQueues(s, message) == [s EXCEPT !.buf = Append(@, message)]

\* send_or_queue_web_message
SendOrQueueWebMessage(s, message) ==
    IF web_communication_initialized
    THEN [s EXCEPT !.sent = Append(@, message), !.calls = Append(@, "send_web_message")]
    ELSE [s EXCEPT !.buf = Append(@, message)]

\* event_loop_proxy.send_event(CustomEvent::CloseWindow)
PostCloseWindow(s) ==
    [s EXCEPT !.queue = Append(@, Ev("CloseWindow", "", 0)),
              !.calls = Append(@, "send_event")]

\* handle_desktop_frontend_message, by the variant's effect on the
\* controller: ToWeb whose batch serializes, ToWeb whose batch does not,
\* CloseWindow, and every other variant.  The k-th batch that serializes is
\* the byte string k.
HandleDesktopFrontendMessage(s, m) ==
    CASE m = "ToWeb" -> SendOrQueueWebMessage([s EXCEPT !.enq = @ + 1], s.enq + 1)
      [] m = "ToWebUnserializable" -> s
      [] m = "CloseWindow" -> PostCloseWindow(s)
      [] OTHER -> s

\* handle_desktop_frontend_messages
RECURSIVE HandleDesktopFrontendMessages(_, _)
HandleDesktopFrontendMessages(s, messages) ==
    IF messages = <<>> THEN s
    ELSE HandleDesktopFrontendMessages(HandleDesktopFrontendMessage(s, Head(messages)),
                                       Tail(messages))

\* dispatch_desktop_wrapper_message; responses is what desktop_wrapper.dispatch
\* answers, with the answers of the dispatches its messages cause in turn.
DispatchDesktopWrapperMessage(s, message, responses) ==
    HandleDesktopFrontendMessages([s EXCEPT !.calls = Append(@, message)], responses)

\* ------------------------------------------------------------ resumed
\* A resumed that keeps the window but not the graphics state.
Resumed_WindowOnly(responses) ==
    /\ ~exited
    /\ Enter("resumed", NoEvent)
    /\ window' = TRUE
    /\ graphics_state' = graphics_state
    /\ LET s == DispatchDesktopWrapperMessage(
                    Start(event_queue, <<"create_window", "GraphicsState::new", "desktop_wrapper.init">>),
                    "UpdatePlatform", responses)
       IN  Bounded(s) /\ Commit(s)
    /\ UNCHANGED <<cef_schedule, web_communication_initialized, now, control_flow, exited,
                   redraw_requested, start_render, cef_window_event>>
    /\ UNCHANGED workerVars

\* self.window and self.graphics_state are set together; the wrapper is
\* initialised and the platform announced.
Resumed(responses) ==
    /\ ~exited
    /\ Enter("resumed", NoEvent)
    /\ window' = TRUE
    /\ graphics_state' = TRUE
    /\ LET s == DispatchDesktopWrapperMessage(
                    Start(event_queue, <<"create_window", "GraphicsState::new", "desktop_wrapper.init">>),
                    "UpdatePlatform", responses)
       IN  Bounded(s) /\ Commit(s)
    /\ UNCHANGED <<cef_schedule, web_communication_initialized, now, control_flow, exited,
                   redraw_requested, start_render, cef_window_event>>
    /\ UNCHANGED workerVars

\* --------------------------------------------------------- user_event
\* A flush that iterates the buffer without draining it.
FlushStartupBuffer_KeepsBuffer(s) ==
    [s EXCEPT !.sent = s.sent \o s.buf,
              !.flushed = s.flushed + Len(s.buf),
              !.calls = s.calls \o Repeat("send_web_message", Len(s.buf))]

\* for message in self.web_communication_startup_buffer.drain(..) { send }
FlushStartupBuffer(s) ==
    [s EXCEPT !.sent = s.sent \o s.buf,
              !.buf = <<>>,
              !.flushed = s.flushed + Len(s.buf),
              !.calls = s.calls \o Repeat("send_web_message", Len(s.buf))]

OnWebCommunicationInitialized(rest) ==
    /\ web_communication_initialized' = TRUE
    /\ Commit(FlushStartupBuffer(Start(rest, <<>>)))
    /\ UNCHANGED <<window, graphics_state, cef_schedule, now, control_flow, exited,
                   redraw_requested, start_render>>

OnDesktopWrapperMessage(message, rest, responses) ==
    /\ LET s == DispatchDesktopWrapperMessage(Start(rest, <<>>), message, responses)
       IN  Bounded(s) /\ Commit(s)
    /\ UNCHANGED <<window, graphics_state, cef_schedule, web_communication_initialized, now,
                   control_flow, exited, redraw_requested, start_render>>

\* A bind and redraw for every HasRun, texture or not.
BindsTexture_AnyHasRun(result) == result # "NotRun" /\ graphics_state /\ window

\* The texture is bound and a redraw requested only for HasRun(Some(texture))
\* with graphics state and window present.
BindsTexture(result) == result = "HasRunTexture" /\ graphics_state /\ window

OnNodeGraphExecutionResult(result, rest, responses) ==
    /\ IF result = "NotRun"
       THEN /\ responses = <<>>
            /\ Commit(Start(rest, <<>>))
            /\ redraw_requested' = redraw_requested
       ELSE LET s == DispatchDesktopWrapperMessage(Start(rest, <<>>),
                                                   "PollNodeGraphEvaluation", responses)
            IN  /\ Bounded(s)
                /\ IF BindsTexture(result)
                   THEN /\ Commit([s EXCEPT !.calls = @ \o <<"bind_viewport_texture", "request_redraw">>])
                        /\ redraw_requested' = TRUE
                   ELSE /\ Commit(s)
                        /\ redraw_requested' = redraw_requested
    /\ UNCHANGED <<window, graphics_state, cef_schedule, web_communication_initialized, now,
                   control_flow, exited, start_render>>

OnUiUpdate(rest) ==
    /\ Commit([Start(rest, <<>>) EXCEPT !.calls =
                  (IF graphics_state THEN <<"resize", "bind_ui_texture">> ELSE <<>>)
                  \o (IF window THEN <<"request_redraw">> ELSE <<>>)])
    /\ redraw_requested' = (redraw_requested \/ window)
    /\ UNCHANGED <<window, graphics_state, cef_schedule, web_communication_initialized, now,
                   control_flow, exited, start_render>>

\* A request that is due at once and forgets the pending deadline.
AfterScheduleRequest_ClearsWhenDue(schedule, instant, t) ==
    IF instant <= t THEN None ELSE Some(instant)

\* A request that only ever moves the deadline earlier.
AfterScheduleRequest_KeepsEarlier(schedule, instant, t) ==
    IF instant <= t THEN schedule
    ELSE IF schedule = None THEN Some(instant)
    ELSE Some(Min(schedule[1], instant))

\* A request that is dropped while a deadline is pending.
AfterScheduleRequest_OnlyIfNone(schedule, instant, t) ==
    IF instant <= t \/ schedule # None THEN schedule ELSE Some(instant)

\* if instant <= Instant::now() { work() } else { self.cef_schedule = Some(instant) }
AfterScheduleRequest(schedule, instant, t) ==
    IF instant <= t THEN schedule ELSE Some(instant)

OnScheduleBrowserWork(instant, rest) ==
    /\ cef_schedule' = AfterScheduleRequest(cef_schedule, instant, now)
    /\ Commit([Start(rest, <<>>) EXCEPT !.calls = IF instant <= now THEN <<"work">> ELSE <<>>])
    /\ UNCHANGED <<window, graphics_state, web_communication_initialized, now, control_flow,
                   exited, redraw_requested, start_render>>

OnCloseWindow(rest) ==
    /\ exited' = TRUE
    /\ Commit([Start(rest, <<>>) EXCEPT !.calls = <<"exit">>])
    /\ UNCHANGED <<window, graphics_state, cef_schedule, web_communication_initialized, now,
                   control_flow, redraw_requested, start_render>>

\* user_event: ev is the event, rest the queue it leaves behind.
UserEvent(ev, rest, responses) ==
    /\ ~exited
    /\ Enter("user_event", ev)
    /\ cef_window_event' = cef_window_event
    /\ UNCHANGED workerVars
    /\ CASE ev.type = "WebCommunicationInitialized" ->
                responses = <<>> /\ OnWebCommunicationInitialized(rest)
         [] ev.type = "DesktopWrapperMessage" ->
                OnDesktopWrapperMessage(ev.arg, rest, responses)
         [] ev.type = "NodeGraphExecutionResult" ->
                OnNodeGraphExecutionResult(ev.arg, rest, responses)
         [] ev.type = "UiUpdate" ->
                responses = <<>> /\ OnUiUpdate(rest)
         [] ev.type = "ScheduleBrowserWork" ->
                responses = <<>> /\ OnScheduleBrowserWork(ev.instant, rest)
         [] ev.type = "CloseWindow" ->
                responses = <<>> /\ OnCloseWindow(rest)

\* ------------------------------------------------------- window_event
\* A send that never stores its token.
TrySend_Drops(tokens) == tokens

\* A send into a channel without a capacity.
TrySend_Unbounded(tokens) == tokens + 1

\* SyncSender::try_send on sync_channel(1): a token is stored if the buffer
\* has room, and otherwise the send fails and the token is dropped.
TrySend(tokens) == IF tokens < START_RENDER_CAPACITY THEN tokens + 1 ELSE tokens

\* A window_event that does not give the event to the browser context.
ForwardWindowEvent_Missing == <<>>

\* The calls window_event makes before its match: the event goes to the
\* browser context first.
ForwardWindowEvent == <<"handle_window_event">>

\* The call window_event makes after its match.
PumpAfterWindowEvent == <<"work">>

\* A CloseRequested arm that exits the event loop itself.
OnCloseRequested_ExitsDirectly ==
    /\ calls' = ForwardWindowEvent \o <<"exit">> \o PumpAfterWindowEvent
    /\ exited' = TRUE
    /\ UNCHANGED <<web_communication_startup_buffer, webVars, event_queue, start_render,
                   redraw_requested>>

OnCloseRequested ==
    /\ Len(event_queue) < MaxQueue
    /\ Commit([PostCloseWindow(Start(event_queue, ForwardWindowEvent))
                  EXCEPT !.calls = @ \o PumpAfterWindowEvent])
    /\ UNCHANGED <<exited, start_render, redraw_requested>>

\* A render arm that also treats a lost surface as fatal.
RenderExits_OnLost(outcome) == outcome \in {"Lost", "OutOfMemory"}

\* exit() is called in the OutOfMemory arm only.
RenderExits(outcome) == outcome = "OutOfMemory"

\* A RedrawRequested arm that sends the go-ahead only after a render that
\* succeeded.
RedrawCalls_GoAheadOnSuccessOnly(outcome) ==
    IF ~graphics_state THEN ForwardWindowEvent
    ELSE IF ~window THEN ForwardWindowEvent \o PumpAfterWindowEvent
    ELSE ForwardWindowEvent \o <<"render", outcome>>
         \o (IF RenderExits(outcome) THEN <<"exit">> ELSE <<>>)
         \o (IF outcome = "Ok" THEN <<"try_send">> ELSE <<>>) \o PumpAfterWindowEvent

\* The RedrawRequested arm; outcome is what graphics_state.render returns.
\* It returns early when there is no graphics state.
RedrawCalls(outcome) ==
    IF ~graphics_state THEN ForwardWindowEvent
    ELSE IF ~window THEN ForwardWindowEvent \o PumpAfterWindowEvent
    ELSE ForwardWindowEvent \o <<"render", outcome>>
         \o (IF RenderExits(outcome) THEN <<"exit">> ELSE <<>>)
         \o <<"try_send">> \o PumpAfterWindowEvent

OnRedrawRequested(outcome) ==
    /\ calls' = RedrawCalls(outcome)
    /\ exited' = (graphics_state /\ window /\ RenderExits(outcome))
    /\ start_render' = IF graphics_state /\ window THEN TrySend(start_render) ELSE start_render
    /\ redraw_requested' = FALSE
    /\ UNCHANGED <<web_communication_startup_buffer, webVars, event_queue>>

\* The DroppedFile arm; read_ok is whether std::fs::read succeeds.  It
\* returns early when the read fails.
DroppedFileCalls(read_ok) ==
    IF read_ok
    THEN ForwardWindowEvent \o <<"fs::read", "send_event">> \o PumpAfterWindowEvent
    ELSE ForwardWindowEvent \o <<"fs::read">>

OnDroppedFile(read_ok) ==
    /\ read_ok => Len(event_queue) < MaxQueue
    /\ calls' = DroppedFileCalls(read_ok)
    /\ event_queue' = IF read_ok
                      THEN Append(event_queue, Ev("DesktopWrapperMessage", "OpenFile", 0))
                      ELSE event_queue
    /\ UNCHANGED <<web_communication_startup_buffer, webVars, exited, start_render,
                   redraw_requested>>

OnResized ==
    /\ calls' = ForwardWindowEvent \o <<"window_size_sender.send", "notify_of_resize">>
                \o PumpAfterWindowEvent
    /\ UNCHANGED <<web_communication_startup_buffer, webVars, event_queue, exited,
                   start_render, redraw_requested>>

OnOtherWindowEvent ==
    /\ calls' = ForwardWindowEvent \o PumpAfterWindowEvent
    /\ UNCHANGED <<web_communication_startup_buffer, webVars, event_queue, exited,
                   start_render, redraw_requested>>

\* The event handle_window_event is called with.
Forwarded(ev) == ev

\* window_event.  The event loop delivers window events for a window that
\* exists.
WindowEvent(ev, outcome, read_ok) ==
    /\ ~exited
    /\ window
    /\ Enter("window_event", ev)
    /\ cef_window_event' = Forwarded(ev)
    /\ CASE ev.type = "CloseRequested" -> OnCloseRequested
         [] ev.type = "Resized" -> OnResized
         [] ev.type = "RedrawRequested" -> OnRedrawRequested(outcome)
         [] ev.type = "DroppedFile" -> OnDroppedFile(read_ok)
         [] OTHER -> OnOtherWindowEvent
    /\ UNCHANGED <<window, graphics_state, cef_schedule, web_communication_initialized, now,
                   control_flow>>
    /\ UNCHANGED workerVars

\* -------------------------------------------------- the compute worker
WorkerStep(name) ==
    /\ Enter(name, NoEvent)
    /\ calls' = <<>>
    /\ cef_window_event' = cef_window_event
    /\ UNCHANGED <<appVars, webVars, now, control_flow, exited, redraw_requested>>

\* block_on(DesktopWrapper::execute_node_graph()) returns.
WorkerExecute ==
    /\ worker_pc = "execute"
    /\ \E result \in ExecutionResults : worker_result' = result
    /\ worker_pc' = "send_event"
    /\ WorkerStep("worker_execute")
    /\ UNCHANGED <<event_queue, start_render>>

\* rendering_loop_proxy.send_event(NodeGraphExecutionResult(result)); the
\* send fails, and is ignored, once the event loop has exited.
WorkerSendEvent ==
    /\ worker_pc = "send_event"
    /\ Len(event_queue) < MaxQueue
    /\ event_queue' = IF exited THEN event_queue
                      ELSE Append(event_queue, Ev("NodeGraphExecutionResult", worker_result, 0))
    /\ worker_pc' = "recv"
    /\ WorkerStep("worker_send_event")
    /\ UNCHANGED <<worker_result, start_render>>

\* A recv that does not block.
GoAhead_NeverBlocks(tokens) == TRUE

\* The go-ahead a blocked start_render_receiver.recv() needs.
GoAhead(tokens) == tokens > 0

\* start_render_receiver.recv() returns with a token; the loop starts over.
WorkerRecv ==
    /\ worker_pc = "recv"
    /\ GoAhead(start_render)
    /\ start_render' = IF start_render > 0 THEN start_render - 1 ELSE 0
    /\ worker_pc' = "execute"
    /\ WorkerStep("worker_recv")
    /\ UNCHANGED <<worker_result, event_queue>>

\* ------------------------------------------------- the environments
\* What the desktop wrapper answers a dispatch with.
LoopResponses == SeqsUpTo({"CloseWindow", "Other"}, MaxResponses)
WebResponses == SeqsUpTo({"ToWeb", "ToWebUnserializable", "Other"}, MaxResponses)

\* The event at the head of the queue is delivered.
QueuedUserEvent(Responses) ==
    /\ event_queue # <<>>
    /\ \E responses \in Responses : UserEvent(Head(event_queue), Tail(event_queue), responses)

\* An event sent by a thread the model does not follow (the browser engine's
\* threads, a file dialog's thread) is delivered.
ExternalUserEvent(Events, Responses) ==
    \E ev \in Events, responses \in Responses : UserEvent(ev, event_queue, responses)

AnyWindowEvent ==
    \E type \in WindowEventTypes, outcome \in RenderOutcomes, read_ok \in BOOLEAN :
        /\ type # "RedrawRequested" => outcome = "Ok"
        /\ type # "DroppedFile" => read_ok
        /\ WindowEvent(Ev(type, "", 0), outcome, read_ok)

\* ---- the event loop, its window events and the compute worker; the clock
\* stands still and the browser engine sends nothing.
LoopAboutToWait == AboutToWait(0)
LoopResumed == \E responses \in LoopResponses : Resumed(responses)
LoopQueuedUserEvent == QueuedUserEvent(LoopResponses)
LoopExternalUserEvent ==
    ExternalUserEvent({Ev("UiUpdate", "", 0), Ev("DesktopWrapperMessage", "OpenFileDialogResult", 0)},
                      LoopResponses)

Next ==
    \/ LoopAboutToWait
    \/ LoopResumed
    \/ LoopQueuedUserEvent
    \/ LoopExternalUserEvent
    \/ AnyWindowEvent
    \/ WorkerExecute
    \/ WorkerSendEvent
    \/ WorkerRecv

Spec == Init /\ [][Next]_vars

\* ---- the clock and the browser engine's schedule requests.
SchedAboutToWait == \E d \in 0..MaxDrift : AboutToWait(d)
SchedResumed == Resumed(<<>>)
SchedScheduleBrowserWork ==
    \E instant \in 0..MaxInstant :
        ExternalUserEvent({Ev("ScheduleBrowserWork", "", instant)}, {<<>>})

SchedNext ==
    \/ SchedAboutToWait
    \/ SchedResumed
    \/ SchedScheduleBrowserWork
    \/ Tick

SpecSched == Init /\ [][SchedNext]_vars

\* ---- the messages to the script side: the wrapper answers with batches
\* for the web, the transport reports ready (any number of times).
WebResumed == \E responses \in WebResponses : Resumed(responses)
WebQueuedUserEvent == QueuedUserEvent(WebResponses)
WebExternalUserEvent ==
    ExternalUserEvent({Ev("WebCommunicationInitialized", "", 0),
                       Ev("DesktopWrapperMessage", "OpenFileDialogResult", 0)},
                      WebResponses)

WebNext ==
    \/ WebResumed
    \/ WebQueuedUserEvent
    \/ WebExternalUserEvent
    \/ WorkerExecute
    \/ WorkerSendEvent

SpecWeb == Init /\ [][WebNext]_vars

\* ------------------------------------------------ UpdateViewportBounds
\* An f32 that is the quotient of two whole numbers: finite (kept in lowest
\* terms), infinite (n / 0) or not a number (0 / 0).
RECURSIVE Gcd(_, _)
Gcd(a, b) == IF b = 0 THEN a ELSE Gcd(b, a % b)

F32Div(a, b) ==
    IF b = 0 THEN [kind |-> IF a = 0 THEN "NaN" ELSE "inf", num |-> 0, den |-> 0]
    ELSE [kind |-> "finite", num |-> a \div Gcd(a, b), den |-> b \div Gcd(a, b)]

\* A scale that divides whatever was reported.
ViewportScale_AlwaysDivides(size, extent) == F32Div(size, extent)

\* if width != 0.0 { window_size.width as f32 / width } else { 1.0 }
ViewportScale(size, extent) == IF extent # 0 THEN F32Div(size, extent) ELSE F32Div(1, 1)

\* x / window_size.width as f32
ViewportOffset(position, size) == F32Div(position, size)

\* user_event(DesktopWrapperMessage(message)) when the wrapper answers with
\* one UpdateViewportBounds { x, y, width, height } and window.inner_size()
\* is inner: with graphics state and window, the offset and then the scale
\* are given to the graphics state; nothing otherwise.
OnUpdateViewportBounds(b, inner) ==
    LET shown == graphics_state /\ window
    IN
    /\ ~exited
    /\ Recorded("user_event", Ev("DesktopWrapperMessage", "OpenFileDialogResult", 0))
    /\ calls' = <<"OpenFileDialogResult">>
                \o (IF shown THEN <<"inner_size", "set_viewport_offset", "set_viewport_scale">>
                    ELSE <<>>)
    /\ viewport_bounds' = Some([x |-> b.x, y |-> b.y, width |-> b.width, height |-> b.height,
                                inner_width |-> inner.width, inner_height |-> inner.height])
    /\ viewport_offset' = IF shown
                            THEN Some(<<ViewportOffset(b.x, inner.width), ViewportOffset(b.y, inner.height)>>)
                            ELSE viewport_offset
    /\ viewport_scale' = IF shown
                           THEN Some(<<ViewportScale(inner.width, b.width), ViewportScale(inner.height, b.height)>>)
                           ELSE viewport_scale
    /\ UNCHANGED <<appVars, loopVars, workerVars, webVars, cef_window_event, chromeVars,
                   bridgeVars, v8Vars, frameVars, persistVars>>

\* ---------------------------------------------------- frame-time average
\* if elapsed < 0.5, in the model's milliseconds
HALF_SECOND_MILLIS == 500

\* A cutoff that lets the half second itself through.
Sampled_Inclusive(elapsed) == elapsed <= HALF_SECOND_MILLIS

\* elapsed < 0.5
Sampled(elapsed) == elapsed < HALF_SECOND_MILLIS

\* (self.avg_frame_time * 3. + elapsed) / 4.
Smoothed(avg, elapsed) == F32Div(3 * avg.num + elapsed * avg.den, 4 * avg.den)

\* user_event(UiUpdate(texture)) with its frame-time bookkeeping: with a
\* graphics state the time since last_ui_update is measured, last_ui_update
\* is set to now and a measure below half a second enters the average.
OnTimedUiUpdate ==
    LET elapsed == now - last_ui_update
    IN
    /\ ~exited
    /\ Recorded("user_event", Ev("UiUpdate", "", 0))
    /\ OnUiUpdate(event_queue)
    /\ cef_window_event' = cef_window_event
    /\ last_ui_update' = IF graphics_state THEN now ELSE last_ui_update
    /\ avg_frame_time' = IF graphics_state /\ Sampled(elapsed)
                           THEN Smoothed(avg_frame_time, elapsed)
                           ELSE avg_frame_time
    /\ ui_updates' = IF graphics_state THEN ui_updates + 1 ELSE ui_updates
    /\ UNCHANGED <<workerVars, chromeVars, bridgeVars, v8Vars, viewVars, persistVars>>

\* ------------------------------------------------ persisted documents
\* The place of id in order.
IndexOf(order, id) == CHOOSE i \in 1..Len(order) : order[i] = id

\* persistent_data.documents_before_current(): the documents that stand
\* before the current one in the document order, in that order.
DocumentsBeforeCurrent(data) ==
    IF data.current = None THEN <<>>
    ELSE SubSeq(data.order, 1, IndexOf(data.order, data.current[1]) - 1)

\* persistent_data.documents_after_current()
DocumentsAfterCurrent(data) ==
    IF data.current = None THEN <<>>
    ELSE SubSeq(data.order, IndexOf(data.order, data.current[1]) + 1, Len(data.order))

\* Iterator::rev
Rev(s) == [i \in 1..Len(s) |-> s[Len(s) + 1 - i]]

\* DesktopWrapperMessage::LoadDocument and ::SelectDocument (the document's
\* content goes with its id).
LoadDocument(id, to_front, select_after_open) ==
    [name |-> "LoadDocument", id |-> id, to_front |-> to_front,
     select_after_open |-> select_after_open]
SelectDocument(id) == [name |-> "SelectDocument", id |-> id]

\* The PersistenceLoadCurrentDocument arm: the current document, if there
\* is one, is loaded at the back and selected.
LoadCurrentDocument(data) ==
    IF data.current = None THEN <<>> ELSE <<LoadDocument(data.current[1], FALSE, TRUE)>>

\* A PersistenceLoadRemainingDocuments arm that walks the documents before
\* the current one from the first to the last.
LoadRemainingDocuments_InOrder(data) ==
    [i \in 1..Len(DocumentsBeforeCurrent(data)) |->
        LoadDocument(DocumentsBeforeCurrent(data)[i], TRUE, FALSE)]
    \o [i \in 1..Len(DocumentsAfterCurrent(data)) |->
        LoadDocument(DocumentsAfterCurrent(data)[i], FALSE, FALSE)]
    \o (IF data.current = None THEN <<>> ELSE <<SelectDocument(data.current[1])>>)

\* The PersistenceLoadRemainingDocuments arm: the documents before the
\* current one, last to first, each to the front; those after it, first to
\* last, each to the back; then the current one is selected.
LoadRemainingDocuments(data) ==
    [i \in 1..Len(DocumentsBeforeCurrent(data)) |->
        LoadDocument(Rev(DocumentsBeforeCurrent(data))[i], TRUE, FALSE)]
    \o [i \in 1..Len(DocumentsAfterCurrent(data)) |->
        LoadDocument(DocumentsAfterCurrent(data)[i], FALSE, FALSE)]
    \o (IF data.current = None THEN <<>> ELSE <<SelectDocument(data.current[1])>>)

\* The editor's open documents after it was given the messages: a document
\* loaded to the front is put first, any other is put last; selecting moves
\* nothing.
RECURSIVE Opened(_, _)
Opened(docs, messages) ==
    IF messages = <<>> THEN docs
    ELSE LET m == Head(messages)
         IN  Opened(IF m.name # "LoadDocument" THEN docs
                    ELSE IF m.to_front THEN <<m.id>> \o docs
                    ELSE Append(docs, m.id),
                    Tail(messages))

\* user_event(DesktopWrapperMessage(message)) when the wrapper answers with
\* the one frontend message name, PersistenceLoadCurrentDocument or
\* PersistenceLoadRemainingDocuments, and answers the dispatches of that arm
\* with nothing.
OnPersistenceLoad(name) ==
    LET messages == IF name = "PersistenceLoadCurrentDocument"
                    THEN LoadCurrentDocument(persistent_data)
                    ELSE LoadRemainingDocuments(persistent_data)
    IN
    /\ ~exited
    /\ Len(Opened(documents, messages)) <= MaxDocs
    /\ Recorded("user_event", Ev("DesktopWrapperMessage", "OpenFileDialogResult", 0))
    /\ calls' = <<"OpenFileDialogResult">> \o [i \in 1..Len(messages) |-> messages[i].name]
    /\ frontend_message' = Some(name)
    /\ dispatched' = messages
    /\ documents' = Opened(documents, messages)
    /\ UNCHANGED <<appVars, loopVars, workerVars, webVars, cef_window_event, chromeVars,
                   bridgeVars, v8Vars, viewVars, frameVars, persistent_data>>

\* ------------------------------------------------------ hybrid_chrome
\* The window chrome of the Windows build: install subclasses the owner
\* window and creates the helper "resize band" window around it, dropping
\* the HybridChromeHandle uninstalls, and wndproc and helper_wndproc are the
\* two window procedures.  A window is named by the HWND of its owner.

\* The hit-test codes and MA_NOACTIVATE of windows::Win32::UI::WindowsAndMessaging.
Win32 ==
    [HTTRANSPARENT |-> -1, HTCLIENT |-> 1, HTCAPTION |-> 2, HTLEFT |-> 10, HTRIGHT |-> 11,
     HTTOP |-> 12, HTTOPLEFT |-> 13, HTTOPRIGHT |-> 14, HTBOTTOM |-> 15,
     HTBOTTOMLEFT |-> 16, HTBOTTOMRIGHT |-> 17, MA_NOACTIVATE |-> 3]

\* (v & 0xFFFF) as i16 as i32
SignedWord(v) == LET u == v % 65536 IN IF u >= 32768 THEN u - 65536 ELSE u
LoWord(lparam) == SignedWord(lparam)
HiWord(lparam) == SignedWord(lparam \div 65536)

\* The LPARAM the system gives a hit test for the screen point (x, y): the
\* two coordinates as 16-bit words, y in the high word, as a signed 32-bit
\* value.
MakeLParam(x, y) == (SignedWord(y) * 65536) + (x % 65536)

Msg(hwnd, msg, wparam, lparam, point) ==
    [hwnd |-> hwnd, msg |-> msg, wparam |-> wparam, lparam |-> lparam, point |-> point]

\* The messages the owner's procedure keeps the helper in step with.
SyncMessages ==
    {"WM_MOVE", "WM_MOVING", "WM_SIZE", "WM_SIZING", "WM_WINDOWPOSCHANGED", "WM_SHOWWINDOW"}

\* What every step of the chrome or of a window procedure records; the
\* controller, the worker and the render process are not touched.
ChromeStep(name, made) ==
    /\ Recorded(name, NoEvent)
    /\ calls' = made
    /\ UNCHANGED <<appVars, loopVars, workerVars, webVars, cef_window_event, bridgeVars, v8Vars,
                   otherVars>>

\* position_helper: the owner's RECT grown by the band on all four sides.
PositionHelper(r) ==
    RectAt(r.left - RESIZE_BAND_THICKNESS, r.top - RESIZE_BAND_THICKNESS,
           (r.right - r.left) + RESIZE_BAND_THICKNESS * 2,
           (r.bottom - r.top) + RESIZE_BAND_THICKNESS * 2)

\* resumed on Windows: create_window gives the owner (its procedure is
\* winit's), then install_impl creates the helper (0 by 0 and hidden, its
\* WM_NCCREATE stashes the pointer to HelperData), swaps the owner's
\* procedure for wndproc, records what SetWindowLongPtrW returned and
\* positions and shows the helper.  SetWindowLongPtrW returns the previous
\* procedure of a window that exists, so prev is never 0 here.
Install(hwnd, rect) ==
    LET prev == "winit_wndproc"
    IN
    /\ chrome[hwnd] = "none"
    /\ uninstall = None
    /\ chrome' = [chrome EXCEPT ![hwnd] = "held"]
    /\ owner_exists' = [owner_exists EXCEPT ![hwnd] = TRUE]
    /\ owner_rect' = [owner_rect EXCEPT ![hwnd] = rect]
    /\ owner_wndproc' = [owner_wndproc EXCEPT ![hwnd] = "wndproc"]
    /\ state_map' = [state_map EXCEPT ![hwnd] =
            Some([prev_wndproc |-> prev, caption_height_px |-> CAPTION_HEIGHT_PX,
                  helper_hwnd |-> hwnd])]
    /\ helper' = [helper EXCEPT ![hwnd] = Some([visible |-> TRUE, rect |-> PositionHelper(rect)])]
    /\ win_message' = NoMessage
    /\ forward' = None
    /\ lresult' = None
    /\ ChromeStep("install", <<"create_window", "CreateWindowExW", "SetWindowLongPtrW", "insert",
                               "position_helper", "ShowWindow">>)
    /\ UNCHANGED <<destroy_calls, uninstall>>

\* An uninstall_impl that destroys the helper before it restores the procedure.
UninstallSteps_DestroyFirst == <<"DestroyWindow", "SetWindowLongPtrW">>

\* The two calls uninstall_impl makes for the State it removed, in order.
UninstallSteps == <<"SetWindowLongPtrW", "DestroyWindow">>

\* An uninstall_impl that reads the State and leaves it in the table.
Removed_Kept(hwnd) == state_map

\* STATE after remove(&hwnd).
Removed(hwnd) == [state_map EXCEPT ![hwnd] = None]

\* uninstall_impl is entered, by the drop of the HybridChromeHandle or by
\* another call after it: the State of hwnd is removed, if there is one.
UninstallEnter(hwnd) ==
    /\ chrome[hwnd] \in {"held", "dropped"}
    /\ uninstall = None
    /\ chrome' = [chrome EXCEPT ![hwnd] = "dropped"]
    /\ IF state_map[hwnd] = None
         THEN /\ ChromeStep("uninstall_impl", <<>>)
              /\ UNCHANGED <<state_map, uninstall>>
         ELSE /\ state_map' = Removed(hwnd)
              /\ uninstall' = Some([hwnd |-> hwnd, state |-> state_map[hwnd][1],
                                    todo |-> UninstallSteps, in_call |-> FALSE])
              /\ ChromeStep("uninstall_impl", <<"remove">>)
    /\ win_message' = NoMessage
    /\ forward' = None
    /\ lresult' = None
    /\ UNCHANGED <<owner_exists, owner_rect, owner_wndproc, helper, destroy_calls>>

\* The next call of the uninstall_impl in progress.  SetWindowLongPtrW puts
\* state.prev_wndproc back (it fails on a window that is gone).
\* DestroyWindow(helper) is entered in one step and returns in the next:
\* while it runs the system may dispatch messages to the owner.
UninstallAdvance ==
    /\ uninstall # None
    /\ LET u == uninstall[1]
           rest == Tail(u.todo)
           after == IF rest = <<>> THEN None ELSE Some([u EXCEPT !.todo = rest, !.in_call = FALSE])
       IN  IF u.in_call
             THEN /\ uninstall' = after
                  /\ ChromeStep("uninstall_impl", <<"return">>)
                  /\ UNCHANGED <<owner_wndproc, helper, destroy_calls>>
             ELSE IF Head(u.todo) = "SetWindowLongPtrW"
             THEN /\ owner_wndproc' = IF owner_exists[u.hwnd]
                                        THEN [owner_wndproc EXCEPT ![u.hwnd] = u.state.prev_wndproc]
                                        ELSE owner_wndproc
                  /\ uninstall' = after
                  /\ ChromeStep("uninstall_impl", <<"SetWindowLongPtrW">>)
                  /\ UNCHANGED <<helper, destroy_calls>>
             ELSE /\ helper' = [helper EXCEPT ![u.state.helper_hwnd] = None]
                  /\ destroy_calls' = [destroy_calls EXCEPT ![u.state.helper_hwnd] = @ + 1]
                  /\ uninstall' = Some([u EXCEPT !.in_call = TRUE])
                  /\ ChromeStep("uninstall_impl", <<"DestroyWindow">>)
                  /\ UNCHANGED owner_wndproc
    /\ win_message' = NoMessage
    /\ forward' = None
    /\ lresult' = None
    /\ UNCHANGED <<chrome, owner_exists, owner_rect, state_map>>

\* The owner's WM_NCHITTEST: a frame of FRAME pixels inside the window's
\* RECT wr, corners before edges, then the caption band, then the client.
OwnerNcHitTest(wr, caption_height_px, lparam) ==
    LET sx == LoWord(lparam)
        sy == HiWord(lparam)
        px == sx - wr.left
        py == sy - wr.top
        ww == wr.right - wr.left
        on_left == px < FRAME
        on_right == px >= ww - FRAME
        on_top == py < FRAME
        on_bottom == py >= (wr.bottom - wr.top) - FRAME
    IN  IF on_top /\ on_left THEN Win32.HTTOPLEFT
        ELSE IF on_top /\ on_right THEN Win32.HTTOPRIGHT
        ELSE IF on_bottom /\ on_left THEN Win32.HTBOTTOMLEFT
        ELSE IF on_bottom /\ on_right THEN Win32.HTBOTTOMRIGHT
        ELSE IF on_top THEN Win32.HTTOP
        ELSE IF on_left THEN Win32.HTLEFT
        ELSE IF on_right THEN Win32.HTRIGHT
        ELSE IF on_bottom THEN Win32.HTBOTTOM
        ELSE IF py >= 0 /\ py < caption_height_px THEN Win32.HTCAPTION
        ELSE Win32.HTCLIENT

\* A wndproc that also answers WM_DESTROY itself once the helper is gone.
Answers_SwallowsDestroy(st, m, wr) ==
    IF m.msg = "WM_NCCALCSIZE" /\ m.wparam # 0 THEN Some(0)
    ELSE IF m.msg = "WM_DESTROY" /\ st # None THEN Some(0)
    ELSE IF m.msg = "WM_NCHITTEST" /\ st # None
    THEN Some(OwnerNcHitTest(wr, st[1].caption_height_px, m.lparam))
    ELSE None

\* The LRESULT wndproc returns from inside its match, if it does: 0 for
\* WM_NCCALCSIZE with a non-zero wparam, the hit-test code for WM_NCHITTEST
\* when the window has a State.
Answers(st, m, wr) ==
    IF m.msg = "WM_NCCALCSIZE" /\ m.wparam # 0 THEN Some(0)
    ELSE IF m.msg = "WM_NCHITTEST" /\ st # None
    THEN Some(OwnerNcHitTest(wr, st[1].caption_height_px, m.lparam))
    ELSE None

\* The call wndproc ends with when it did not return from the match:
\* CallWindowProcW of the recorded previous procedure, DefWindowProcW when
\* the window has no State.
PassOn(st, m) ==
    [proc |-> IF st # None THEN st[1].prev_wndproc ELSE "DefWindowProcW",
     hwnd |-> m.hwnd, msg |-> m.msg, wparam |-> m.wparam, lparam |-> m.lparam]

\* The helper after wndproc's match: WM_SHOWWINDOW shows or hides it, all
\* of SyncMessages reposition it around the owner's RECT wr, WM_DESTROY
\* destroys it; nothing without a State.
HelperAfter(st, m, wr) ==
    LET hp == helper[st[1].helper_hwnd]
    IN  IF m.msg = "WM_DESTROY" THEN None
        ELSE IF m.msg \notin SyncMessages \/ hp = None THEN hp
        ELSE Some([visible |-> IF m.msg = "WM_SHOWWINDOW" THEN m.wparam # 0 ELSE hp[1].visible,
                   rect |-> PositionHelper(wr)])

\* The Win32 calls of wndproc, in order.
WndProcCalls(st, m, wr) ==
    (IF st # None /\ m.msg = "WM_SHOWWINDOW" THEN <<"ShowWindow">> ELSE <<>>)
    \o (IF st # None /\ m.msg \in SyncMessages THEN <<"position_helper">> ELSE <<>>)
    \o (IF st # None /\ m.msg = "WM_DESTROY" THEN <<"DestroyWindow">> ELSE <<>>)
    \o (IF Answers(st, m, wr) # None THEN <<>>
        ELSE IF st # None THEN <<"CallWindowProcW">> ELSE <<"DefWindowProcW">>)

\* The system dispatches message m to the owner m.hwnd, whose RECT is wr by
\* now: to wndproc while the window is subclassed, to winit's procedure
\* otherwise.  The window is gone once WM_DESTROY has been handled.
OwnerMessage(m, wr) ==
    LET hwnd == m.hwnd
        st == state_map[hwnd]
        subclassed == owner_wndproc[hwnd] = "wndproc"
        answer == IF subclassed THEN Answers(st, m, wr) ELSE None
    IN
    /\ owner_exists[hwnd]
    /\ IF uninstall = None THEN TRUE ELSE uninstall[1].in_call
    /\ owner_rect' = [owner_rect EXCEPT ![hwnd] = wr]
    /\ owner_exists' = [owner_exists EXCEPT ![hwnd] = m.msg # "WM_DESTROY"]
    /\ win_message' = m
    /\ lresult' = answer
    /\ forward' = IF subclassed /\ answer = None THEN Some(PassOn(st, m)) ELSE None
    /\ IF subclassed /\ st # None
         THEN /\ helper' = [helper EXCEPT ![st[1].helper_hwnd] = HelperAfter(st, m, wr)]
              /\ destroy_calls' = [destroy_calls EXCEPT ![st[1].helper_hwnd] =
                                      IF m.msg = "WM_DESTROY" THEN @ + 1 ELSE @]
         ELSE UNCHANGED <<helper, destroy_calls>>
    /\ IF subclassed
         THEN ChromeStep("wndproc", WndProcCalls(st, m, wr))
         ELSE ChromeStep("winit_wndproc", <<>>)
    /\ UNCHANGED <<chrome, owner_wndproc, state_map, uninstall>>

\* A helper hit test whose bands stop one pixel short of the far edges.
HelperNcHitTest_OffByOne(r, lparam) ==
    LET sx == LoWord(lparam)
        sy == HiWord(lparam)
        on_left == sx < r.left + RESIZE_BAND_THICKNESS
        on_right == sx > r.right - RESIZE_BAND_THICKNESS
        on_top == sy < r.top + RESIZE_BAND_THICKNESS
        on_bottom == sy > r.bottom - RESIZE_BAND_THICKNESS
    IN  IF on_top /\ on_left THEN Win32.HTTOPLEFT
        ELSE IF on_top /\ on_right THEN Win32.HTTOPRIGHT
        ELSE IF on_bottom /\ on_left THEN Win32.HTBOTTOMLEFT
        ELSE IF on_bottom /\ on_right THEN Win32.HTBOTTOMRIGHT
        ELSE IF on_top THEN Win32.HTTOP
        ELSE IF on_left THEN Win32.HTLEFT
        ELSE IF on_right THEN Win32.HTRIGHT
        ELSE IF on_bottom THEN Win32.HTBOTTOM
        ELSE Win32.HTTRANSPARENT

\* The helper's WM_NCHITTEST for its RECT r: corners first, then edges,
\* HTTRANSPARENT elsewhere.  The arm first reads HelperData.owner through
\* GWLP_USERDATA, a pointer to a value that lived only for the
\* CreateWindowExW call; whatever that read yields, nothing uses it, so it
\* is no input of the result.
HelperNcHitTest(r, lparam) ==
    LET sx == LoWord(lparam)
        sy == HiWord(lparam)
        on_left == sx < r.left + RESIZE_BAND_THICKNESS
        on_right == sx >= r.right - RESIZE_BAND_THICKNESS
        on_top == sy < r.top + RESIZE_BAND_THICKNESS
        on_bottom == sy >= r.bottom - RESIZE_BAND_THICKNESS
    IN  IF on_top /\ on_left THEN Win32.HTTOPLEFT
        ELSE IF on_top /\ on_right THEN Win32.HTTOPRIGHT
        ELSE IF on_bottom /\ on_left THEN Win32.HTBOTTOMLEFT
        ELSE IF on_bottom /\ on_right THEN Win32.HTBOTTOMRIGHT
        ELSE IF on_top THEN Win32.HTTOP
        ELSE IF on_left THEN Win32.HTLEFT
        ELSE IF on_right THEN Win32.HTRIGHT
        ELSE IF on_bottom THEN Win32.HTBOTTOM
        ELSE Win32.HTTRANSPARENT

\* The LRESULT helper_wndproc returns from inside its match, if it does.
\* (WM_NCCREATE arrives only inside CreateWindowExW, see Install.)
HelperAnswers(m, r) ==
    IF m.msg = "WM_ERASEBKGND" THEN Some(1)
    ELSE IF m.msg = "WM_NCHITTEST" THEN Some(HelperNcHitTest(r, m.lparam))
    ELSE IF m.msg = "WM_MOUSEACTIVATE" THEN Some(Win32.MA_NOACTIVATE)
    ELSE None

\* The system dispatches message m to the helper window of owner m.hwnd;
\* what helper_wndproc does not answer goes to DefWindowProcW.
HelperMessage(m) ==
    LET answer == HelperAnswers(m, helper[m.hwnd][1].rect)
    IN
    /\ helper[m.hwnd] # None
    /\ uninstall = None
    /\ win_message' = m
    /\ lresult' = answer
    /\ forward' = IF answer # None THEN None
                  ELSE Some([proc |-> "DefWindowProcW", hwnd |-> m.hwnd, msg |-> m.msg,
                             wparam |-> m.wparam, lparam |-> m.lparam])
    /\ ChromeStep("helper_wndproc", IF answer # None THEN <<>> ELSE <<"DefWindowProcW">>)
    /\ UNCHANGED <<chrome, owner_exists, owner_rect, owner_wndproc, state_map, helper,
                   destroy_calls, uninstall>>

\* --------------------------------------- the render process's bridge
\* RenderProcessHandlerImpl owns the sender of an unbounded channel of
\* payloads; every script context's V8 handler shares the receiver behind a
\* mutex.  The k-th payload sent is the number k.

BridgeStep(name, made) ==
    /\ Recorded(name, NoEvent)
    /\ calls' = made
    /\ UNCHANGED <<appVars, loopVars, workerVars, webVars, cef_window_event, chromeVars, v8Vars,
                   otherVars>>

\* A process message: its name, and whether it has an argument list and a
\* binary value at index 0.
ProcessMessage(name, argument_list, binary) ==
    [name |-> name, argument_list |-> argument_list, binary |-> binary]

\* A handler that takes the payload of a message of any name.
Accepts_AnyName(name) == TRUE

\* The name test of on_process_message_received.
Accepts(name) == name = "editorResponseToJs"

\* What on_process_message_received reads of the message, in order, and the
\* send it ends with when nothing was missing.
ReceivedCalls(message) ==
    IF message = None THEN <<>>
    ELSE <<"name">>
         \o (IF ~Accepts(message[1].name) THEN <<>>
             ELSE <<"argument_list">>
                  \o (IF ~message[1].argument_list THEN <<>>
                      ELSE <<"binary">> \o (IF message[1].binary THEN <<"send">> ELSE <<>>)))

\* on_process_message_received: 1 without a message, 0 for another name or
\* a missing argument list or binary, else the bytes are sent into the
\* channel and 1 returned.
OnProcessMessageReceived(message) ==
    LET made == ReceivedCalls(message)
        sends == Count(made, "send") = 1
    IN
    /\ ~disconnected
    /\ sends => delivered < MaxPayloads
    /\ delivered' = IF sends THEN delivered + 1 ELSE delivered
    /\ channel' = IF sends THEN Append(channel, delivered + 1) ELSE channel
    /\ process_message' = message
    /\ ret' = Some(IF message = None \/ sends THEN 1 ELSE 0)
    /\ BridgeStep("on_process_message_received", made)
    /\ UNCHANGED <<receiver_lock, reader_pc, returned>>

\* A recv that takes the newest payload.
Recv_TakesLast(ch) == [data |-> ch[Len(ch)], rest |-> SubSeq(ch, 1, Len(ch) - 1)]

\* Receiver::recv on a channel that holds a payload: the oldest one.
Recv(ch) == [data |-> Head(ch), rest |-> Tail(ch)]

\* execute("readMessageData") is called in script context r and comes to
\* self.receiver.lock().
ReadCall(r) ==
    /\ reader_pc[r] = "idle"
    /\ reader_pc' = [reader_pc EXCEPT ![r] = "lock"]
    /\ process_message' = None
    /\ ret' = None
    /\ BridgeStep("execute", <<>>)
    /\ UNCHANGED <<channel, delivered, receiver_lock, returned>>

\* The mutex is free and r takes it.
ReadLock(r) ==
    /\ reader_pc[r] = "lock"
    /\ receiver_lock = None
    /\ receiver_lock' = Some(r)
    /\ reader_pc' = [reader_pc EXCEPT ![r] = "recv"]
    /\ process_message' = None
    /\ ret' = None
    /\ BridgeStep("execute", <<"lock">>)
    /\ UNCHANGED <<channel, delivered, returned>>

\* recv returns once the channel holds a payload; the guard is released,
\* the payload becomes the array buffer given back to the script and
\* execute returns 1.
ReadRecv(r) ==
    /\ reader_pc[r] = "recv"
    /\ channel # <<>>
    /\ channel' = Recv(channel).rest
    /\ returned' = Append(returned, <<r, Recv(channel).data>>)
    /\ receiver_lock' = None
    /\ reader_pc' = [reader_pc EXCEPT ![r] = "idle"]
    /\ process_message' = None
    /\ ret' = Some(1)
    /\ BridgeStep("execute", <<"recv", "v8_value_create_array_buffer">>)
    /\ UNCHANGED delivered

\* ------------------------------------------- the script-bridge functions
\* execute of the two V8 handlers (NonBrowserV8HandlerImpl and
\* BrowserProcessV8HandlerImpl) for the names sendMessageToCef and
\* readMessageData.  A panic is recorded as the last call made; nothing is
\* returned and nothing of the render process runs after it.

V8Step(name, made) ==
    /\ Recorded(name, NoEvent)
    /\ calls' = made
    /\ panicked' = (Count(made, "panic") > 0)
    /\ UNCHANGED <<appVars, loopVars, workerVars, webVars, cef_window_event, chromeVars,
                   otherVars>>

\* The arguments of a call from script: the slice itself missing, empty, its
\* first element missing, or a first element that is a value.
ArgumentKinds == {"none", "empty", "null", "value"}

V8Call(name, arguments, create_ok, frame_ok, fits) ==
    [name |-> name, arguments |-> arguments, create_ok |-> create_ok, frame_ok |-> frame_ok,
     fits |-> fits]

\* arguments.unwrap().first().unwrap().as_ref().unwrap()
FirstArgument(arguments) ==
    IF arguments = "value" THEN <<"arguments">> ELSE <<"arguments", "panic">>

\* The sendMessageToCef arm, the same in both handlers: the first argument's
\* string_value (whatever kind of value it is) names the process message;
\* 0 when process_message_create gives none or there is no current context
\* or frame, else the message is sent to the browser process and execute
\* returns 1.
SendMessageCalls(arguments, create_ok, frame_ok) ==
    IF arguments # "value" THEN FirstArgument(arguments)
    ELSE FirstArgument(arguments) \o <<"string_value", "process_message_create">>
         \o (IF ~create_ok THEN <<>>
             ELSE <<"v8_context_get_current_context">>
                  \o (IF frame_ok THEN <<"send_process_message">> ELSE <<>>))

SendMessageToCef(arguments, create_ok, frame_ok) ==
    LET made == SendMessageCalls(arguments, create_ok, frame_ok)
    IN
    /\ ~panicked
    /\ v8_call' = Some(V8Call("sendMessageToCef", arguments, create_ok, frame_ok, TRUE))
    /\ ret' = IF Count(made, "panic") > 0 THEN None
              ELSE Some(IF Count(made, "send_process_message") = 1 THEN 1 ELSE 0)
    /\ process_message' = None
    /\ V8Step("sendMessageToCef", made)
    /\ UNCHANGED <<channel, delivered, receiver_lock, reader_pc, returned, disconnected>>

\* The readMessageData arm of BrowserProcessV8HandlerImpl once recv has
\* returned a payload: the guard is released, the payload is copied into the
\* array buffer that is the first argument (copy_from_slice panics unless
\* the buffer is exactly as long as the payload) and execute returns 1.
ReadIntoCalls(arguments, fits) ==
    <<"recv">> \o FirstArgument(arguments)
    \o (IF arguments # "value" THEN <<>>
        ELSE <<"copy_from_slice">> \o (IF fits THEN <<>> ELSE <<"panic">>))

ReadInto(r, arguments, fits) ==
    LET made == ReadIntoCalls(arguments, fits)
        done == Count(made, "panic") = 0
    IN
    /\ ~panicked
    /\ reader_pc[r] = "recv"
    /\ channel # <<>>
    /\ channel' = Recv(channel).rest
    /\ returned' = IF done THEN Append(returned, <<r, Recv(channel).data>>) ELSE returned
    /\ receiver_lock' = None
    /\ reader_pc' = [reader_pc EXCEPT ![r] = "idle"]
    /\ v8_call' = Some(V8Call("readMessageData", arguments, TRUE, TRUE, fits))
    /\ ret' = IF done THEN Some(1) ELSE None
    /\ process_message' = None
    /\ V8Step("readMessageData", made)
    /\ UNCHANGED <<delivered, disconnected>>

\* recv on an empty channel whose sender is gone returns Err: the arm of
\* either handler returns 0.
ReadDisconnected(r) ==
    /\ ~panicked
    /\ reader_pc[r] = "recv"
    /\ channel = <<>>
    /\ disconnected
    /\ receiver_lock' = None
    /\ reader_pc' = [reader_pc EXCEPT ![r] = "idle"]
    /\ v8_call' = Some(V8Call("readMessageData", "value", TRUE, TRUE, TRUE))
    /\ ret' = Some(0)
    /\ process_message' = None
    /\ V8Step("readMessageData", <<"recv">>)
    /\ UNCHANGED <<channel, delivered, returned, disconnected>>

\* The RenderProcessHandlerImpl is dropped, and the channel's sender with it.
DropSender ==
    /\ ~panicked
    /\ ~disconnected
    /\ disconnected' = TRUE
    /\ v8_call' = None
    /\ ret' = None
    /\ process_message' = None
    /\ V8Step("drop", <<>>)
    /\ UNCHANGED <<channel, delivered, receiver_lock, reader_pc, returned>>

\* ---- the window chrome: windows are created and the chrome installed,
\* the system dispatches messages to owners and helpers, handles are dropped.
\* The RECTs an owner window takes: an empty one and one with room for the
\* frame, the caption band and some client area.
ChromeRects ==
    {RectAt(0, 0, 0, 0),
     RectAt(-MaxOrigin, MaxOrigin, 2 * FRAME + MaxExtent, CAPTION_HEIGHT_PX + 2 * FRAME + MaxExtent)}

\* Screen points of a RECT that a hit test is asked about: its corners,
\* the first points inside its frame, and one below the caption band.
ChromePoints(r) ==
    {<<r.left, r.top>>, <<r.right - 1, r.bottom - 1>>, <<r.left + FRAME, r.top + FRAME>>,
     <<r.left + FRAME, r.top + CAPTION_HEIGHT_PX>>}

ResizeCodes ==
    {Win32.HTLEFT, Win32.HTRIGHT, Win32.HTTOP, Win32.HTTOPLEFT, Win32.HTTOPRIGHT,
     Win32.HTBOTTOM, Win32.HTBOTTOMLEFT, Win32.HTBOTTOMRIGHT}

ChromeInstall == \E hwnd \in Owners : \E rect \in ChromeRects : Install(hwnd, rect)

ChromeDrop == \E hwnd \in Owners : UninstallEnter(hwnd)

\* A message that comes with a new position or size of the owner.
ChromeOwnerMoved ==
    \E hwnd \in Owners : \E msg \in {"WM_MOVE", "WM_SIZE", "WM_WINDOWPOSCHANGED"} :
        \E wr \in ChromeRects : OwnerMessage(Msg(hwnd, msg, 0, 0, <<0, 0>>), wr)

ChromeOwnerMessage ==
    \E hwnd \in Owners : \E msg \in {"WM_NCCALCSIZE", "WM_SHOWWINDOW", "WM_DESTROY", "WM_PAINT"} :
        \E wparam \in {0, 1} : OwnerMessage(Msg(hwnd, msg, wparam, 0, <<0, 0>>), owner_rect[hwnd])

ChromeOwnerHitTest ==
    \E hwnd \in Owners : \E p \in ChromePoints(owner_rect[hwnd]) :
        OwnerMessage(Msg(hwnd, "WM_NCHITTEST", 0, MakeLParam(p[1], p[2]), p), owner_rect[hwnd])

ChromeHelperMessage ==
    \E hwnd \in Owners : \E msg \in {"WM_ERASEBKGND", "WM_MOUSEACTIVATE", "WM_PAINT"} :
        HelperMessage(Msg(hwnd, msg, 0, 0, <<0, 0>>))

\* A non-client mouse-down on the helper; wparam is the hit-test code.
ChromeHelperMouseDown ==
    \E hwnd \in Owners : \E code \in ResizeCodes \cup {Win32.HTCAPTION} :
        HelperMessage(Msg(hwnd, "WM_NCLBUTTONDOWN", code, 0, <<0, 0>>))

ChromeNext ==
    \/ ChromeInstall
    \/ ChromeDrop
    \/ UninstallAdvance
    \/ ChromeOwnerMoved
    \/ ChromeOwnerMessage
    \/ ChromeOwnerHitTest
    \/ ChromeHelperMessage
    \/ ChromeHelperMouseDown

SpecChrome == Init /\ [][ChromeNext]_vars

\* ---- the helper's hit test: one owner window of any RECT of the bounded
\* range, and a hit test for any point of the helper window around it.
HitOwner == "hwnd_a"

HitRects ==
    {RectAt(x, y, w, h) : x \in {-MaxOrigin, MaxOrigin}, y \in {-MaxOrigin, MaxOrigin},
                          w \in 0..MaxExtent, h \in 0..MaxExtent}

HitInstall == \E rect \in HitRects : Install(HitOwner, rect)

HitHelperHitTest ==
    /\ helper[HitOwner] # None
    /\ LET r == helper[HitOwner][1].rect
       IN  \E x \in r.left..(r.right - 1) : \E y \in r.top..(r.bottom - 1) :
               HelperMessage(Msg(HitOwner, "WM_NCHITTEST", 0, MakeLParam(x, y), <<x, y>>))

HitNext == HitInstall \/ HitHelperHitTest

SpecHitTest == Init /\ [][HitNext]_vars

\* ---- the render process: the browser process delivers messages, script
\* contexts call readMessageData.
ProcessMessages ==
    {None} \cup {Some(ProcessMessage(name, argument_list, binary)) :
                    name \in {"editorResponseToJs", "other"},
                    argument_list \in BOOLEAN, binary \in BOOLEAN}

BridgeDeliver == \E message \in ProcessMessages : OnProcessMessageReceived(message)
BridgeReadCall == \E r \in Readers : ReadCall(r)
BridgeReadLock == \E r \in Readers : ReadLock(r)
BridgeReadRecv == \E r \in Readers : ReadRecv(r)

BridgeNext ==
    \/ BridgeDeliver
    \/ BridgeReadCall
    \/ BridgeReadLock
    \/ BridgeReadRecv

SpecBridge == Init /\ [][BridgeNext]_vars

\* ---- the script-bridge functions: script calls them with any arguments,
\* the engine's calls succeed or fail, the sender may be dropped.
V8Deliver == ~panicked /\ OnProcessMessageReceived(Some(ProcessMessage("editorResponseToJs", TRUE, TRUE)))
V8ReadCall == ~panicked /\ \E r \in Readers : ReadCall(r)
V8ReadLock == ~panicked /\ \E r \in Readers : ReadLock(r)
V8ReadRecv == ~panicked /\ \E r \in Readers : ReadRecv(r)
V8ReadInto == \E r \in Readers : \E arguments \in ArgumentKinds : \E fits \in BOOLEAN : ReadInto(r, arguments, fits)
V8ReadDisconnected == \E r \in Readers : ReadDisconnected(r)
V8SendMessageToCef ==
    \E arguments \in ArgumentKinds : \E create_ok \in BOOLEAN : \E frame_ok \in BOOLEAN :
        SendMessageToCef(arguments, create_ok, frame_ok)

V8Next ==
    \/ V8Deliver
    \/ V8ReadCall
    \/ V8ReadLock
    \/ V8ReadRecv
    \/ V8ReadInto
    \/ V8ReadDisconnected
    \/ V8SendMessageToCef
    \/ DropSender

SpecV8 == Init /\ [][V8Next]_vars

\* ---- the viewport: the window appears, the wrapper reports viewport
\* bounds of any size in the bounded range for a window of any inner size.
ViewResumed == Resumed(<<>>)

ViewUpdateViewportBounds ==
    \E x \in {0, MaxSize} : \E y \in {0, MaxSize} :
        \E width \in 0..MaxSize : \E height \in 0..MaxSize :
            \E inner_width \in 0..MaxSize : \E inner_height \in 0..MaxSize :
                OnUpdateViewportBounds([x |-> x, y |-> y, width |-> width, height |-> height],
                                       [width |-> inner_width, height |-> inner_height])

ViewNext == ViewResumed \/ ViewUpdateViewportBounds

SpecView == Init /\ [][ViewNext]_vars

\* ---- the frame time: the window appears, quarter seconds pass and UiUpdate
\* events arrive at any of them.
FrameResumed == Resumed(<<>>)

FramePass ==
    /\ now < (HALF_SECOND_MILLIS \div 2) * MaxQuarters
    /\ now' = now + (HALF_SECOND_MILLIS \div 2)
    /\ Enter("tick", NoEvent)
    /\ calls' = <<>>
    /\ cef_window_event' = cef_window_event
    /\ UNCHANGED <<appVars, control_flow, event_queue, exited, redraw_requested, start_render>>
    /\ UNCHANGED <<workerVars, webVars>>

FrameUiUpdate == ui_updates < MaxUpdates /\ OnTimedUiUpdate

FrameNext == FrameResumed \/ FramePass \/ FrameUiUpdate

SpecFrame == Init /\ [][FrameNext]_vars

\* ---- the event loop that keeps iterating: about_to_wait runs again and
\* again, a redraw that was requested is delivered, queued results are
\* delivered and the worker thread runs.  The event loop thread is never
\* starved (about_to_wait ends every iteration), winit delivers a requested
\* redraw, and the operating system schedules the worker thread.
LiveAboutToWait == AboutToWait(0)
LiveResumed == Resumed(<<>>)
LiveQueuedUserEvent == QueuedUserEvent({<<>>})
LiveRedraw ==
    /\ redraw_requested
    /\ \E outcome \in RenderOutcomes : WindowEvent(Ev("RedrawRequested", "", 0), outcome, TRUE)

LiveNext ==
    \/ LiveAboutToWait
    \/ LiveResumed
    \/ LiveQueuedUserEvent
    \/ LiveRedraw
    \/ WorkerExecute
    \/ WorkerSendEvent
    \/ WorkerRecv

SpecLive ==
    /\ Init
    /\ [][LiveNext]_vars
    /\ WF_vars(LiveAboutToWait)
    /\ WF_vars(LiveRedraw)
    /\ WF_vars(WorkerRecv)

\* ---- the persisted documents: the program starts with any document order
\* on disk, one of the documents current, and the editor asks for the
\* current document and for the remaining ones.
PersistentDatas ==
    {NothingPersisted}
    \cup {[order |-> order, current |-> Some(order[c])] :
             <<order, c>> \in {oc \in SeqsUpTo(1..MaxDocs, MaxDocs) \X (1..MaxDocs) :
                                  /\ oc[2] <= Len(oc[1])
                                  /\ \A i, j \in 1..Len(oc[1]) : oc[1][i] = oc[1][j] => i = j}}

PersistInit == \E data \in PersistentDatas : InitWith(data)

PersistLoadCurrentDocument == OnPersistenceLoad("PersistenceLoadCurrentDocument")
PersistLoadRemainingDocuments == OnPersistenceLoad("PersistenceLoadRemainingDocuments")

PersistNext == PersistLoadCurrentDocument \/ PersistLoadRemainingDocuments

SpecPersist == PersistInit /\ [][PersistNext]_vars

\* =============================================================== claims
IsUserEvent(type) == handler = "user_event" /\ event.type = type
IsWindowEvent(type) == handler = "window_event" /\ event.type = type
CloseWindowEvent == Ev("CloseWindow", "", 0)

\* ---------------------------------------------------------------- C1
\* C1: the messages the browser context is sent, followed by those still in
\* the startup buffer, are exactly the messages enqueued, in enqueue order,
\* each once (message k is the k-th enqueued); once the transport is ready
\* none stays behind in the buffer, so what was sent is the whole enqueue
\* order, however often WebCommunicationInitialized is handled.
C1_DeliveredInEnqueueOrder ==
    /\ web_sent \o web_communication_startup_buffer = [k \in 1..enqueued |-> k]
    /\ web_communication_initialized => web_sent = [k \in 1..enqueued |-> k]

\* WebCommunicationInitialized was just handled again, with nothing left to
\* flush, after at least one buffered message was flushed and at least one
\* more message was sent directly.
C1_Witness ==
    /\ IsUserEvent("WebCommunicationInitialized")
    /\ calls = <<>>
    /\ flushed >= 1
    /\ Len(web_sent) > flushed

\* ---------------------------------------------------------------- C2
\* Evaluations started whose result the event loop has not consumed: the one
\* being evaluated or about to be posted, and the results in the queue.
Outstanding ==
    (IF worker_pc \in {"execute", "send_event"} THEN 1 ELSE 0)
    + Cardinality({i \in 1..Len(event_queue) : event_queue[i].type = "NodeGraphExecutionResult"})

\* C2 as stated: the worker never starts an evaluation while the result of
\* an earlier one is unconsumed; at most one evaluation is outstanding.
C2_AtMostOneOutstanding == Outstanding <= 1

\* C2 as amended: the worker starts its next evaluation only from the
\* go-ahead receive and only by taking a token out of the render-trigger
\* channel, and a token enters the channel only while RedrawRequested is
\* handled.
C2_StartsOnlyOnGoAhead ==
    [][/\ (worker_pc # "execute" /\ worker_pc' = "execute")
              => (worker_pc = "recv" /\ start_render = 1 /\ start_render' = 0)
       /\ (start_render' > start_render)
              => (handler' = "window_event" /\ event'.type = "RedrawRequested")
       /\ start_render' \in 0..1]_vars

\* The worker has just taken a token and started the next evaluation while
\* its previous result is still in the event queue.
C2_Witness ==
    /\ handler = "worker_recv"
    /\ worker_pc = "execute"
    /\ Outstanding = 2

\* ---------------------------------------------------------------- C3
\* A ScheduleBrowserWork request with a future instant was just handled while
\* an earlier request's deadline was pending and had not fired.
SecondFutureRequest ==
    /\ IsUserEvent("ScheduleBrowserWork")
    /\ event.instant > entry_time
    /\ entry_schedule # None
    /\ entry_schedule[1] > entry_time

\* C3 as stated: after two requests with future instants the pending
\* deadline is the earlier of the two instants.
C3_EarlierDeadlineWins ==
    SecondFutureRequest => cef_schedule = Some(Min(entry_schedule[1], event.instant))

\* C3 as amended: after two requests with future instants the pending
\* deadline is the instant of the request handled last.
C3_LastRequestWins ==
    SecondFutureRequest => cef_schedule = Some(event.instant)

\* The later instant was requested second and is the pending deadline.
C3_Witness ==
    /\ SecondFutureRequest
    /\ entry_schedule[1] < event.instant
    /\ cef_schedule = Some(event.instant)

\* ---------------------------------------------------------------- C4
\* C4: there is never more than one pending deadline, and a request with a
\* future instant leaves exactly the requested instant pending, whatever was
\* pending before.
C4_RequestReplacesDeadline ==
    /\ Len(cef_schedule) <= 1
    /\ (IsUserEvent("ScheduleBrowserWork") /\ event.instant > entry_time)
           => cef_schedule = Some(event.instant)

\* A request moved a pending future deadline to an earlier instant.
C4_Witness ==
    /\ SecondFutureRequest
    /\ event.instant < entry_schedule[1]
    /\ cef_schedule = Some(event.instant)

\* ---------------------------------------------------------------- C5
\* C5: about_to_wait pumps the browser engine in a burst exactly when a
\* deadline is pending and has elapsed; the burst is
\* CEF_MESSAGE_LOOP_MAX_ITERATIONS calls of work() and clears the deadline;
\* otherwise about_to_wait calls work() not at all and leaves the deadline;
\* and a cleared deadline becomes pending again only by a ScheduleBrowserWork
\* request with a future instant.
C5_BurstOncePerRequest ==
    [][/\ handler' = "about_to_wait" =>
              IF cef_schedule # None /\ cef_schedule[1] < now'
              THEN /\ cef_schedule' = None
                   /\ Count(calls', "work") = CEF_MESSAGE_LOOP_MAX_ITERATIONS
              ELSE /\ cef_schedule' = cef_schedule
                   /\ Count(calls', "work") = 0
       /\ (cef_schedule = None /\ cef_schedule' # None) =>
              /\ handler' = "user_event"
              /\ event'.type = "ScheduleBrowserWork"
              /\ event'.instant > now']_vars

\* about_to_wait has just run the burst for a deadline that a request had
\* set and that had elapsed when it was entered.
C5_Witness ==
    /\ handler = "about_to_wait"
    /\ entry_schedule # None
    /\ entry_schedule[1] > 0
    /\ entry_schedule[1] < entry_time
    /\ cef_schedule = None
    /\ Count(calls, "work") = CEF_MESSAGE_LOOP_MAX_ITERATIONS

\* ---------------------------------------------------------------- C6
\* The wake time about_to_wait has just set.
WakeTime == control_flow[1]

\* C6: about_to_wait sets the wake time to the earlier of 10 ms after its
\* entry and the deadline pending at its entry, if any; so the wake time is
\* never later than either.
C6_WakeIsEarliest ==
    handler = "about_to_wait" =>
        /\ control_flow # None
        /\ WakeTime = IF entry_schedule # None /\ entry_schedule[1] < entry_time + 10
                      THEN entry_schedule[1]
                      ELSE entry_time + 10
        /\ WakeTime <= entry_time + 10
        /\ entry_schedule # None => WakeTime <= entry_schedule[1]

\* about_to_wait was entered with a deadline that lay in the future and
\* before the 10 ms ceiling, and set the wake time to it.
C6_Witness ==
    /\ handler = "about_to_wait"
    /\ entry_schedule # None
    /\ entry_schedule[1] > entry_time
    /\ entry_schedule[1] < entry_time + 10
    /\ control_flow = entry_schedule

\* ---------------------------------------------------------------- C7
\* C7: every window_event ends with exactly one call of work(), made last.
C7_PumpEndsEveryWindowEvent ==
    handler = "window_event" =>
        /\ Count(calls, "work") = 1
        /\ calls[Len(calls)] = "work"

\* ---------------------------------------------------------------- C8
\* C8: window_event gives the event it received to handle_window_event as
\* its first call, once, before any handling of its own.
C8_BrowserSeesEventFirst ==
    handler = "window_event" =>
        /\ calls # <<>>
        /\ calls[1] = "handle_window_event"
        /\ Count(calls, "handle_window_event") = 1
        /\ cef_window_event = event

\* A dropped file was forwarded, then read and posted.
C8_Witness ==
    /\ IsWindowEvent("DroppedFile")
    /\ calls = <<"handle_window_event", "fs::read", "send_event", "work">>
    /\ cef_window_event = event

\* ---------------------------------------------------------------- C9
CloseWindowsIn(queue) == Cardinality({i \in 1..Len(queue) : queue[i] = CloseWindowEvent})

\* C9: handling CloseRequested leaves the event loop running and posts one
\* CloseWindow event; a CloseWindow frontend message does the same; and the
\* event loop is exited only while the CloseWindow event is handled (or by
\* the out-of-memory render of C10).
C9_CloseGoesThroughCloseWindow ==
    [][/\ (handler' = "window_event" /\ event'.type = "CloseRequested") =>
              /\ ~exited'
              /\ event_queue' = Append(event_queue, CloseWindowEvent)
              /\ Count(calls', "exit") = 0
       /\ (handler' \in {"user_event", "resumed"} /\ Count(calls', "send_event") > 0) =>
              /\ ~exited'
              /\ CloseWindowsIn(event_queue') >= Count(calls', "send_event")
       /\ (~exited /\ exited') =>
              \/ handler' = "user_event" /\ event' = CloseWindowEvent
                    /\ event_queue # <<>> /\ Head(event_queue) = CloseWindowEvent
              \/ handler' = "window_event" /\ event'.type = "RedrawRequested"]_vars

\* CloseRequested was just handled: the event loop still runs and the
\* CloseWindow event it posted is last in the queue.
C9_Witness ==
    /\ IsWindowEvent("CloseRequested")
    /\ ~exited
    /\ event_queue # <<>>
    /\ event_queue[Len(event_queue)] = CloseWindowEvent
    /\ calls = <<"handle_window_event", "send_event", "work">>

\* --------------------------------------------------------------- C10
\* C10: a RedrawRequested that renders exits the event loop if and only if
\* the render returned the out-of-memory error.
C10_OnlyOutOfMemoryExits ==
    IsWindowEvent("RedrawRequested") =>
        /\ Count(calls, "render") = 1
        /\ exited <=> Count(calls, "OutOfMemory") = 1

\* A render returned out-of-memory and the event loop was exited.
C10_Witness ==
    /\ IsWindowEvent("RedrawRequested")
    /\ Count(calls, "OutOfMemory") = 1
    /\ exited

\* --------------------------------------------------------------- C11
\* The place of the first call x in the calls of the last step (0: none).
FirstCall(x) ==
    IF Count(calls, x) = 0 THEN 0
    ELSE CHOOSE i \in 1..Len(calls) : calls[i] = x /\ \A j \in 1..(i - 1) : calls[j] # x

\* C11: a RedrawRequested handled with window and graphics state makes one
\* render call and, after it, exactly one go-ahead send attempt, whatever
\* the render returned; the channel then holds a token.
C11_OneGoAheadPerRedraw ==
    (IsWindowEvent("RedrawRequested") /\ window /\ graphics_state) =>
        /\ Count(calls, "render") = 1
        /\ Count(calls, "try_send") = 1
        /\ FirstCall("render") < FirstCall("try_send")
        /\ start_render = 1

\* A render lost the surface and the go-ahead was still attempted.
C11_Witness ==
    /\ IsWindowEvent("RedrawRequested")
    /\ Count(calls, "Lost") = 1
    /\ Count(calls, "try_send") = 1
    /\ start_render = 1

\* --------------------------------------------------------------- C12
\* C12: handling a NodeGraphExecutionResult binds a viewport texture and
\* requests a redraw exactly when the result is HasRun with a texture and
\* window and graphics state exist; it dispatches PollNodeGraphEvaluation
\* exactly when the result is HasRun, with or without a texture.
C12_RedrawOnlyForTexture ==
    IsUserEvent("NodeGraphExecutionResult") =>
        LET shown == event.arg = "HasRunTexture" /\ window /\ graphics_state
        IN  /\ Count(calls, "request_redraw") = (IF shown THEN 1 ELSE 0)
            /\ Count(calls, "bind_viewport_texture") = (IF shown THEN 1 ELSE 0)
            /\ Count(calls, "PollNodeGraphEvaluation") = (IF event.arg = "NotRun" THEN 0 ELSE 1)
            /\ shown => redraw_requested

\* HasRun without a texture was handled with a window present: the poll was
\* dispatched and nothing else was called.
C12_Witness ==
    /\ IsUserEvent("NodeGraphExecutionResult")
    /\ event.arg = "HasRunNone"
    /\ window /\ graphics_state
    /\ calls = <<"PollNodeGraphEvaluation">>

\* --------------------------------------------------------------- C13
\* C13: an uninstall_impl that found a State of the window ends with the
\* State gone, the helper gone and, on a window that still exists, the
\* procedure the window had before install; an uninstall_impl that finds no
\* State changes no window, no helper and no State.
C13_UninstallUndoesInstall ==
    [][(handler' = "uninstall_impl" /\ uninstall' = None) =>
          IF uninstall # None
            THEN LET hwnd == uninstall[1].hwnd
                 IN  /\ state_map'[hwnd] = None
                     /\ helper'[hwnd] = None
                     /\ owner_exists'[hwnd] => owner_wndproc'[hwnd] = "winit_wndproc"
            ELSE UNCHANGED <<owner_exists, owner_rect, owner_wndproc, state_map, helper,
                             destroy_calls>>]_vars

\* The drop of a handle has just finished on a window that still exists.
C13_Witness ==
    /\ handler = "uninstall_impl"
    /\ calls = <<"return">>
    /\ uninstall = None
    /\ \E hwnd \in Owners :
          /\ chrome[hwnd] = "dropped"
          /\ owner_exists[hwnd]
          /\ owner_wndproc[hwnd] = "winit_wndproc"
          /\ helper[hwnd] = None
          /\ state_map[hwnd] = None
          /\ destroy_calls[hwnd] = 1

\* --------------------------------------------------------------- C14
\* C14: whichever of the owner's WM_DESTROY and the drop of the handle comes
\* first destroys the helper and removes the State, and the other does
\* neither: DestroyWindow is called on a helper at most once, and a window
\* that is gone has no State left.
C14_TornDownOnce ==
    \A hwnd \in Owners :
        /\ destroy_calls[hwnd] <= 1
        /\ (chrome[hwnd] # "none" /\ ~owner_exists[hwnd]) => state_map[hwnd] = None

\* --------------------------------------------------------------- C15
\* C15: while uninstall_impl is inside DestroyWindow(helper) the owner, if it
\* still exists, has its previous procedure back, and no message dispatched
\* to it in that time is handled by wndproc.
C15_RestoredBeforeTeardown ==
    (uninstall # None /\ uninstall[1].in_call) =>
        LET u == uninstall[1]
        IN  /\ owner_exists[u.hwnd] => owner_wndproc[u.hwnd] = u.state.prev_wndproc
            /\ win_message.hwnd = u.hwnd => handler # "wndproc"

\* A message reached the owner while its helper was being destroyed, and
\* winit's procedure handled it.
C15_Witness ==
    /\ uninstall # None
    /\ uninstall[1].in_call
    /\ handler = "winit_wndproc"
    /\ win_message.hwnd = uninstall[1].hwnd
    /\ helper[uninstall[1].hwnd] = None

\* --------------------------------------------------------------- C16
\* C16: wndproc, for a window that has a State, answers WM_NCCALCSIZE with a
\* non-zero wparam and WM_NCHITTEST itself and passes every other message
\* to the recorded previous procedure with the same window, message, wparam
\* and lparam, after it has repositioned the helper (move, size, show) or
\* destroyed it (WM_DESTROY).
C16_UnansweredIsPassedOn ==
    (handler = "wndproc" /\ state_map[win_message.hwnd] # None) =>
        LET m == win_message
            own == (m.msg = "WM_NCCALCSIZE" /\ m.wparam # 0) \/ m.msg = "WM_NCHITTEST"
        IN  IF own
              THEN forward = None /\ lresult # None
              ELSE /\ lresult = None
                   /\ forward = Some([proc |-> "winit_wndproc", hwnd |-> m.hwnd, msg |-> m.msg,
                                      wparam |-> m.wparam, lparam |-> m.lparam])
                   /\ (m.msg \in SyncMessages /\ helper[m.hwnd] # None) =>
                          helper[m.hwnd][1].rect = PositionHelper(owner_rect[m.hwnd])
                   /\ m.msg = "WM_DESTROY" => helper[m.hwnd] = None

\* WM_DESTROY was handled by wndproc: the helper is destroyed and the
\* message went on to winit's procedure.
C16_Witness ==
    /\ handler = "wndproc"
    /\ win_message.msg = "WM_DESTROY"
    /\ state_map[win_message.hwnd] # None
    /\ destroy_calls[win_message.hwnd] = 1
    /\ forward # None
    /\ forward[1].proc = "winit_wndproc"
    /\ forward[1].msg = "WM_DESTROY"

\* --------------------------------------------------------------- C17
\* C17: the helper's hit test of a point (x, y) inside its RECT gives the
\* code of the edge when the point is within RESIZE_BAND_THICKNESS of
\* exactly one edge, the code of the corner when it is within that distance
\* of two adjacent edges, and HTTRANSPARENT for every other point.
C17_BandsAndCorners ==
    (handler = "helper_wndproc" /\ win_message.msg = "WM_NCHITTEST") =>
        LET r == helper[win_message.hwnd][1].rect
            x == win_message.point[1]
            y == win_message.point[2]
            nearLeft == x - r.left < RESIZE_BAND_THICKNESS
            nearRight == (r.right - 1) - x < RESIZE_BAND_THICKNESS
            nearTop == y - r.top < RESIZE_BAND_THICKNESS
            nearBottom == (r.bottom - 1) - y < RESIZE_BAND_THICKNESS
            near == {e \in {"left", "right", "top", "bottom"} :
                        \/ e = "left" /\ nearLeft
                        \/ e = "right" /\ nearRight
                        \/ e = "top" /\ nearTop
                        \/ e = "bottom" /\ nearBottom}
            expected ==
                IF near = {"left"} THEN Win32.HTLEFT
                ELSE IF near = {"right"} THEN Win32.HTRIGHT
                ELSE IF near = {"top"} THEN Win32.HTTOP
                ELSE IF near = {"bottom"} THEN Win32.HTBOTTOM
                ELSE IF near = {"top", "left"} THEN Win32.HTTOPLEFT
                ELSE IF near = {"top", "right"} THEN Win32.HTTOPRIGHT
                ELSE IF near = {"bottom", "left"} THEN Win32.HTBOTTOMLEFT
                ELSE IF near = {"bottom", "right"} THEN Win32.HTBOTTOMRIGHT
                ELSE Win32.HTTRANSPARENT
        IN  lresult = Some(expected)

\* A point left of the screen's origin, in the left band only.
C17_Witness ==
    /\ handler = "helper_wndproc"
    /\ win_message.msg = "WM_NCHITTEST"
    /\ win_message.point[1] < 0
    /\ win_message.point[2] > 0
    /\ lresult = Some(Win32.HTLEFT)

\* --------------------------------------------------------------- C18
\* C18: a non-client mouse-down on the helper whose wparam is one of the
\* eight resize codes is answered by helper_wndproc itself, after one
\* PostMessageW of the resize command to the owner.
C18_MouseDownPostsResize ==
    (/\ handler = "helper_wndproc"
     /\ win_message.msg = "WM_NCLBUTTONDOWN"
     /\ win_message.wparam \in ResizeCodes) =>
        /\ Count(calls, "PostMessageW") = 1
        /\ lresult # None

\* --------------------------------------------------------------- C19
\* C19: on_process_message_received appends a payload to the channel, and
\* returns 1, only for a message named "editorResponseToJs" that has an
\* argument list with a binary value at index 0; for a message of any other
\* name it returns 0, does not read the argument list and leaves the
\* channel as it was.
C19_OnlyResponsesArePushed ==
    [][handler' = "on_process_message_received" =>
          LET m == process_message'
          IN  IF m # None /\ m[1].name = "editorResponseToJs" /\ m[1].argument_list /\ m[1].binary
                THEN channel' = Append(channel, delivered') /\ ret' = Some(1)
                ELSE /\ channel' = channel
                     /\ (m # None /\ m[1].name # "editorResponseToJs") =>
                            /\ ret' = Some(0)
                            /\ Count(calls', "argument_list") = 0]_vars

\* A message of another name, complete with a binary argument, was turned
\* away while a payload was waiting in the channel.
C19_Witness ==
    /\ handler = "on_process_message_received"
    /\ process_message = Some(ProcessMessage("other", TRUE, TRUE))
    /\ ret = Some(0)
    /\ calls = <<"name">>
    /\ channel # <<>>

V8Failure ==
    /\ handler \in {"sendMessageToCef", "readMessageData"}
    /\ v8_call # None
    /\ \/ v8_call[1].arguments # "value"
       \/ ~v8_call[1].create_ok
       \/ ~v8_call[1].frame_ok
       \/ ~v8_call[1].fits
       \/ handler = "readMessageData" /\ calls = <<"recv">>

\* C21: a call of sendMessageToCef or readMessageData in which something
\* failed returns 0, sends no process message and does not panic.
C21_FailureReturnsZero ==
    V8Failure =>
        /\ ret = Some(0)
        /\ Count(calls, "send_process_message") = 0
        /\ Count(calls, "panic") = 0

\* --------------------------------------------------------------- C22
\* That the f32 s is the quotient a / b of a by a non-zero b.
IsQuotient(s, a, b) == s.kind = "finite" /\ s.num * b = a * s.den

\* C22: an UpdateViewportBounds handled with window and graphics state sets
\* the scale to 1 in a direction whose reported size is 0 and to the inner
\* size divided by the reported size otherwise; the scale is always finite.
C22_ScaleNeverDividesByZero ==
    (IsUserEvent("DesktopWrapperMessage") /\ Count(calls, "set_viewport_scale") = 1) =>
        LET b == viewport_bounds[1]
            scale == viewport_scale[1]
        IN  /\ IF b.width = 0 THEN IsQuotient(scale[1], 1, 1)
               ELSE IsQuotient(scale[1], b.inner_width, b.width)
            /\ IF b.height = 0 THEN IsQuotient(scale[2], 1, 1)
               ELSE IsQuotient(scale[2], b.inner_height, b.height)

\* A viewport of width 0 was reported for a window twice as high as the
\* viewport: the scale is 1 by 2.
C22_Witness ==
    /\ IsUserEvent("DesktopWrapperMessage")
    /\ Count(calls, "set_viewport_scale") = 1
    /\ viewport_bounds[1].width = 0
    /\ viewport_bounds[1].inner_width > 0
    /\ viewport_bounds[1].height > 0
    /\ viewport_bounds[1].inner_height = 2 * viewport_bounds[1].height
    /\ viewport_scale = Some(<<F32Div(1, 1), F32Div(2, 1)>>)

\* --------------------------------------------------------------- C23
\* That the fraction s is the value (3 * avg + e) / 4.
IsSmoothed(s, avg, e) == s.kind = "finite" /\ 4 * s.num * avg.den = (3 * avg.num + e * avg.den) * s.den

\* C23: a UiUpdate handled with a graphics state after an interval e below
\* half a second sets the average to (3 * avg + e) / 4, and one handled
\* after half a second or more leaves the average as it was.
C23_SmoothedFrameTime ==
    [][(handler' = "user_event" /\ event'.type = "UiUpdate" /\ graphics_state) =>
          IF now - last_ui_update < HALF_SECOND_MILLIS
          THEN IsSmoothed(avg_frame_time', avg_frame_time, now - last_ui_update)
          ELSE avg_frame_time' = avg_frame_time]_vars

\* The first sample, a quarter second, has made the average a quarter of
\* itself (250 / 4 ms), and a later interval of half a second has left it.
C23_Witness ==
    /\ IsUserEvent("UiUpdate")
    /\ ui_updates = 2
    /\ now = 3 * (HALF_SECOND_MILLIS \div 2)
    /\ last_ui_update = now
    /\ avg_frame_time.num * 4 = (HALF_SECOND_MILLIS \div 2) * avg_frame_time.den

\* --------------------------------------------------------------- C24
\* C24: once the window exists no callback creates another window or
\* graphics state or announces the platform again, a further resumed
\* included.
C24_OneWindowOverLifetime ==
    [][window => /\ Count(calls', "create_window") = 0
                 /\ Count(calls', "GraphicsState::new") = 0
                 /\ Count(calls', "UpdatePlatform") = 0]_vars

\* --------------------------------------------------------------- C25
\* C25: the render-trigger channel holds at most one token; a go-ahead send
\* attempted while a token is held leaves that one token and the handler
\* runs on to its end; the worker's receive takes exactly one token and
\* starts exactly one evaluation, and no evaluation starts otherwise.
C25_OneTokenOneEvaluation ==
    [][/\ start_render' <= START_RENDER_CAPACITY
       /\ (Count(calls', "try_send") > 0 /\ start_render = START_RENDER_CAPACITY)
              => (start_render' = START_RENDER_CAPACITY /\ calls'[Len(calls')] = "work")
       /\ (handler' = "worker_recv")
              => (start_render' = start_render - 1 /\ worker_pc = "recv" /\ worker_pc' = "execute")
       /\ (worker_pc' = "execute" /\ worker_pc # "execute") => handler' = "worker_recv"]_vars

\* A redraw found the token of an earlier redraw still in the channel: its
\* send was dropped and the handler finished with the message-loop work.
C25_Witness ==
    /\ IsWindowEvent("RedrawRequested")
    /\ Count(calls, "try_send") = 1
    /\ entry_tokens = START_RENDER_CAPACITY
    /\ start_render = START_RENDER_CAPACITY
    /\ calls[Len(calls)] = "work"

\* --------------------------------------------------------------- C26
\* C26: with window and graphics state and an event loop that keeps
\* iterating, a worker that has posted its result (of any kind) and waits
\* for the go-ahead is eventually given a token and starts its next
\* evaluation, unless the event loop has exited.
C26_GoAheadFollowsEveryResult ==
    (worker_pc = "recv" /\ window /\ graphics_state /\ ~exited)
        ~> (worker_pc = "execute" \/ exited)

\* The worker posted NotRun, which requests no redraw itself, and was given
\* the go-ahead by a redraw all the same.
C26_Witness ==
    /\ handler = "worker_recv"
    /\ worker_pc = "execute"
    /\ worker_result = "NotRun"
    /\ window /\ graphics_state /\ ~exited

\* --------------------------------------------------------------- C27
\* C27: a go-ahead send is attempted, and a token enters the channel, only
\* while RedrawRequested is handled with window and graphics state; while
\* there is no window yet the channel is empty, the worker's receive never
\* returns and a worker that waits for the go-ahead goes on waiting.
C27_GoAheadOnlyFromRedraw ==
    [][/\ (Count(calls', "try_send") > 0 \/ start_render' > start_render)
              => /\ handler' = "window_event"
                 /\ event'.type = "RedrawRequested"
                 /\ window /\ graphics_state
       /\ ~window' => /\ start_render' = 0
                      /\ handler' # "worker_recv"
                      /\ worker_pc = "recv" => worker_pc' = "recv"]_vars

\* Before the first resumed the worker has posted the result of its first
\* evaluation and waits for the go-ahead; the result has been handled.
C27_Witness ==
    /\ ~window
    /\ worker_pc = "recv"
    /\ start_render = 0
    /\ IsUserEvent("NodeGraphExecutionResult")

\* --------------------------------------------------------------- C28
\* C28: between handlers the window is present exactly when the graphics
\* state is; both appear in resumed and in no other step, and once present
\* neither is ever cleared.
C28_WindowIffGraphicsState ==
    [][/\ window <=> graphics_state
       /\ window' <=> graphics_state'
       /\ window => window'
       /\ graphics_state => graphics_state'
       /\ (~window /\ window') => handler' = "resumed"]_vars

\* Window and graphics state are still there after the window was asked to
\* close and the event loop has exited.
C28_Witness ==
    /\ window /\ graphics_state
    /\ exited
    /\ IsUserEvent("CloseWindow")

\* --------------------------------------------------------------- C29
\* C29: web_communication_initialized, once true, stays true, and only
\* WebCommunicationInitialized sets it; after every handler in which it is
\* true the startup buffer is empty; as long as it is false no message has
\* been given to send_web_message.
C29_FlagMonotonicBufferDrained ==
    [][/\ web_communication_initialized => web_communication_initialized'
       /\ (~web_communication_initialized /\ web_communication_initialized')
              => (handler' = "user_event" /\ event'.type = "WebCommunicationInitialized")
       /\ web_communication_initialized' => web_communication_startup_buffer' = <<>>
       /\ ~web_communication_initialized'
              => (web_sent' = <<>> /\ Count(calls', "send_web_message") = 0)]_vars

\* With the transport ready, after the buffered messages were flushed, a
\* batch for the web was sent directly and nothing was buffered.
C29_Witness ==
    /\ IsUserEvent("DesktopWrapperMessage")
    /\ web_communication_initialized
    /\ flushed >= 1
    /\ Count(calls, "send_web_message") >= 1
    /\ web_communication_startup_buffer = <<>>

\* --------------------------------------------------------------- C30
\* C30: a ScheduleBrowserWork request whose instant is not after the clock
\* makes exactly one call, work(), and leaves the pending deadline as it
\* found it: a stored one stays, none is created.
C30_DueRequestWorksAtOnce ==
    (IsUserEvent("ScheduleBrowserWork") /\ event.instant <= entry_time) =>
        /\ calls = <<"work">>
        /\ cef_schedule = entry_schedule

\* A request for this very instant was handled while a later deadline was
\* pending: work() ran once and the deadline is still pending.
C30_Witness ==
    /\ IsUserEvent("ScheduleBrowserWork")
    /\ event.instant = entry_time
    /\ entry_schedule # None
    /\ entry_schedule[1] > entry_time
    /\ cef_schedule = entry_schedule
    /\ Count(calls, "work") = 1

\* --------------------------------------------------------------- C31
\* C31: for a persisted order b1..bn, current, a1..am, handling
\* PersistenceLoadRemainingDocuments dispatches LoadDocument for bn down to
\* b1 to the front, then for a1 up to am to the back, none selected after
\* opening, and last one SelectDocument for the current document; and if
\* the editor held just the current document, it then holds the documents
\* in the persisted order.
C31_RemainingDocumentsKeepOrder ==
    [][(handler' = "user_event"
            /\ frontend_message' = Some("PersistenceLoadRemainingDocuments")
            /\ persistent_data.current # None) =>
          LET order == persistent_data.order
              current == persistent_data.current[1]
              c == CHOOSE i \in 1..Len(order) : order[i] = current
              n == c - 1
              m == Len(order) - c
          IN  /\ Len(dispatched') = n + m + 1
              /\ \A i \in 1..n :
                     dispatched'[i] = [name |-> "LoadDocument", id |-> order[c - i],
                                       to_front |-> TRUE, select_after_open |-> FALSE]
              /\ \A j \in 1..m :
                     dispatched'[n + j] = [name |-> "LoadDocument", id |-> order[c + j],
                                           to_front |-> FALSE, select_after_open |-> FALSE]
              /\ dispatched'[n + m + 1] = [name |-> "SelectDocument", id |-> current]
              /\ documents = <<current>> => documents' = order]_vars

\* Five documents were persisted with the third current: two were loaded to
\* the front, two to the back, and the editor holds the persisted order.
C31_Witness ==
    /\ IsUserEvent("DesktopWrapperMessage")
    /\ frontend_message = Some("PersistenceLoadRemainingDocuments")
    /\ Len(persistent_data.order) = 5
    /\ persistent_data.current = Some(persistent_data.order[3])
    /\ Len(dispatched) = 5
    /\ dispatched[1].id = persistent_data.order[2]
    /\ dispatched[2].id = persistent_data.order[1]
    /\ documents = persistent_data.order
====
